---- MODULE Spec2Model ----
(***************************************************************************)
(* Voice-Control-Campus-Assistance: the query classifier and entity        *)
(* extractor (modules/nlp_processor.py), the response synthesizer          *)
(* (modules/response_generator.py), the knowledge store                    *)
(* (modules/data_handler.py) and the callers that drive them (main.py,     *)
(* gui_app.py).                                                            *)
(*                                                                         *)
(* Texts are TLA+ strings; a character is a string of length 1.  Python's  *)
(* None is the value None.  A float confidence n/d is the record           *)
(* [num |-> n, den |-> d].  The emoji that decorate the rendered responses *)
(* are left out of the response strings.                                   *)
(***************************************************************************)
EXTENDS Integers, Sequences, FiniteSets, TLC

VARIABLES
    now,            \* the wall clock: days elapsed since a Monday
    built,          \* the clock reading when IntentProcessor.__init__ ran
    day_mappings,   \* IntentProcessor.day_mappings['today' / 'tomorrow']
    text,           \* the argument of the call in progress or last made
    pc,             \* what the last step was
    nlp,            \* the last classifier / extractor result
    response_count, \* ResponseGenerator.response_count
    outcome,        \* the last result of process_query / generate_response
    files,          \* the data directory: what each JSON file holds on disk
    store,          \* DataHandler's loaded dictionaries
    log,            \* the calls served so far, in order
    thr,            \* the GUI threads started by _on_submit / _on_voice_click
    is_listening,   \* CampusAssistantGUI.is_listening
    microphone_available, \* SpeechRecognizer.microphone_available
    queue,          \* TTSManager.queue
    running,        \* TTSManager.running
    worker,         \* the position of TTSManager._worker and the text it holds
    spoken          \* the texts the speech engine has uttered, in order

\* the state of the GUI's voice capture and of its speech queue
gui_vars == <<is_listening, microphone_available, queue, running, worker, spoken>>

vars == <<now, built, day_mappings, text, pc, nlp, response_count, outcome, files,
          store, log, thr,
         is_listening, microphone_available, queue, running, worker, spoken>>

None == "None"

\* no call made yet, or a call that produced no such result
NoResult == [kind |-> "none"]

\* ---------------------------------------------------------------- bounds
MaxTicks == 2
MaxCalls == 5
MaxWords == 2
MaxThreads == 2
MaxTurns == 2

\* CampusAssistantGUI.__init__ and TTSManager.__init__: nothing is being
\* captured, the queue is empty and the worker thread has been started
InitGui ==
    /\ is_listening = FALSE
    /\ microphone_available = TRUE
    /\ queue = <<>>
    /\ running = TRUE
    /\ worker = [pc |-> "loop", text |-> None]
    /\ spoken = <<>>

\* ------------------------------------------------------------ characters
LowerLetters == "abcdefghijklmnopqrstuvwxyz"
UpperLetters == "ABCDEFGHIJKLMNOPQRSTUVWXYZ"
DigitsUnderscore == "0123456789_"

Char(s, i) == SubSeq(s, i, i)

CharsOf(s) == {Char(s, i) : i \in 1..Len(s)}

IndexOf(s, c) == CHOOSE i \in 1..Len(s) : Char(s, i) = c

SpaceChars == {" ", "\t", "\n"}

LetterChars == CharsOf(LowerLetters) \cup CharsOf(UpperLetters)

WordChars == LetterChars \cup CharsOf(DigitsUnderscore)

LowerOfUpper == [c \in CharsOf(UpperLetters) |-> Char(LowerLetters, IndexOf(UpperLetters, c))]

UpperOfLower == [c \in CharsOf(LowerLetters) |-> Char(UpperLetters, IndexOf(LowerLetters, c))]

\* \s of the re module
IsSpace(c) == c \in SpaceChars

\* \w of the re module
IsWord(c) == c \in WordChars

LowerChar(c) == IF c \in DOMAIN LowerOfUpper THEN LowerOfUpper[c] ELSE c

UpperChar(c) == IF c \in DOMAIN UpperOfLower THEN UpperOfLower[c] ELSE c

\* str.lower()
RECURSIVE lower(_)
lower(s) == IF s = "" THEN "" ELSE LowerChar(Head(s)) \o lower(Tail(s))

\* str.upper()
RECURSIVE upper(_)
upper(s) == IF s = "" THEN "" ELSE UpperChar(Head(s)) \o upper(Tail(s))

\* str.capitalize()
capitalize(s) == IF s = "" THEN "" ELSE UpperChar(Head(s)) \o lower(Tail(s))

\* str.strip()
RECURSIVE lstrip(_)
lstrip(s) == IF s # "" /\ IsSpace(Head(s)) THEN lstrip(Tail(s)) ELSE s

RECURSIVE rstrip(_)
rstrip(s) ==
    IF s # "" /\ IsSpace(Char(s, Len(s))) THEN rstrip(SubSeq(s, 1, Len(s) - 1)) ELSE s

strip(s) == rstrip(lstrip(s))

\* re.sub(r'\s+', ' ', s)
RECURSIVE collapse_whitespace(_)
collapse_whitespace(s) ==
    IF s = "" THEN ""
    ELSE IF IsSpace(Head(s)) THEN " " \o collapse_whitespace(lstrip(s))
    ELSE Head(s) \o collapse_whitespace(Tail(s))

\* re.sub(r"[^\w\s']", '', s)
RECURSIVE remove_special(_)
remove_special(s) ==
    IF s = "" THEN ""
    ELSE IF IsWord(Head(s)) \/ IsSpace(Head(s)) \/ Head(s) = "'"
         THEN Head(s) \o remove_special(Tail(s))
         ELSE remove_special(Tail(s))

\* k in s
Contains(s, k) ==
    \E i \in 1..(Len(s) - Len(k) + 1) : SubSeq(s, i, i + Len(k) - 1) = k

\* s.startswith(k)
StartsWith(s, k) == Len(k) <= Len(s) /\ SubSeq(s, 1, Len(k)) = k

\* IntentProcessor.preprocess_text
preprocess_text(t) ==
    IF t = None \/ t = "" THEN ""
    ELSE remove_special(collapse_whitespace(strip(lower(t))))

\* ------------------------------------------------------ nlp_processor.py
\* The four shapes of regular expression the intent table uses.
Then(a, b) == [kind |-> "then", a |-> a, b |-> b]          \* r'a.*b'
AtStart(a) == [kind |-> "start", a |-> a, b |-> ""]         \* r'^a'
AtStartWord(a) == [kind |-> "startword", a |-> a, b |-> ""] \* r'^a\b'
Plain(a) == [kind |-> "plain", a |-> a, b |-> ""]           \* r'a'

\* re.search(pattern, s), for s without a newline
re_search(p, s) ==
    CASE p.kind = "then" ->
           \E i \in 1..(Len(s) - Len(p.a) + 1) :
               /\ SubSeq(s, i, i + Len(p.a) - 1) = p.a
               /\ Contains(SubSeq(s, i + Len(p.a), Len(s)), p.b)
      [] p.kind = "start" -> StartsWith(s, p.a)
      [] p.kind = "startword" ->
           /\ StartsWith(s, p.a)
           /\ (Len(s) = Len(p.a) \/ ~IsWord(Char(s, Len(p.a) + 1)))
      [] p.kind = "plain" -> Contains(s, p.a)

\* IntentProcessor.intents, in its declared order
intents == <<
    [name |-> "timetable",
     keywords |-> <<"timetable", "class", "schedule", "lecture", "period",
                    "timing", "classes", "today", "tomorrow", "when">>,
     patterns |-> <<Then("what", "class"), Then("when", "class"),
                    Then("today", "schedule"), Then("tomorrow", "schedule"),
                    Then("class", "timing"), Then("schedule", "for")>>],
    [name |-> "exam",
     keywords |-> <<"exam", "examination", "test", "internal", "semester",
                    "exam schedule", "exam date", "exam time", "exams">>,
     patterns |-> <<Then("when", "exam"), Then("exam", "schedule"),
                    Then("exam", "date"), Then("next", "exam"),
                    Then("upcoming", "exam")>>],
    [name |-> "department",
     keywords |-> <<"department", "hod", "head", "faculty", "professor",
                    "teacher", "staff", "office", "contact", "phone">>,
     patterns |-> <<Then("who", "hod"), Then("department", "info"),
                    Then("contact", "department"), Then("about", "department")>>],
    [name |-> "facility",
     keywords |-> <<"library", "canteen", "hostel", "sports", "gym",
                    "medical", "hospital", "bus", "transport", "wifi">>,
     patterns |-> <<Then("where", "library"), Then("library", "timing"),
                    Then("canteen", "open"), Then("hostel", "timing"),
                    Then("bus", "route")>>],
    [name |-> "event",
     keywords |-> <<"event", "fest", "cultural", "technical", "seminar",
                    "workshop", "placement", "drive", "program">>,
     patterns |-> <<Then("upcoming", "event"), Then("next", "fest"),
                    Then("when", "placement")>>],
    [name |-> "faq",
     keywords |-> <<"leave", "fee", "certificate", "attendance", "scholarship",
                    "apply", "bonafide", "rules", "how to", "procedure">>,
     patterns |-> <<Then("how", "apply"), Then("what", "fee"),
                    Then("attendance", "requirement")>>],
    [name |-> "greeting",
     keywords |-> <<"hello", "hi", "hey", "good morning", "good afternoon",
                    "good evening", "help", "assist">>,
     patterns |-> <<AtStart("hello"), AtStartWord("hi"), AtStart("hey")>>],
    [name |-> "exit",
     keywords |-> <<"bye", "goodbye", "exit", "quit", "stop", "thank you",
                    "thanks", "done">>,
     patterns |-> <<Plain("bye"), Plain("exit"), Plain("quit")>> ] >>

\* datetime.now().strftime('%A').lower()
DayNames == <<"monday", "tuesday", "wednesday", "thursday", "friday",
              "saturday", "sunday">>

weekday(n) == DayNames[(n % 7) + 1]

\* IntentProcessor._get_today / _get_tomorrow, called when the clock reads n
get_today(n) == weekday(n)

get_tomorrow(n) == weekday(n + 1)

\* IntentProcessor.department_mappings, in its declared order
department_mappings == <<
    <<"cse", "CSE">>, <<"computer", "CSE">>, <<"computer science", "CSE">>,
    <<"cs", "CSE">>,
    <<"ece", "ECE">>, <<"electronics", "ECE">>, <<"communication", "ECE">>,
    <<"ec", "ECE">>,
    <<"mech", "MECH">>, <<"mechanical", "MECH">>, <<"me", "MECH">>,
    <<"civil", "CIVIL">>, <<"ce", "CIVIL">>,
    <<"eee", "EEE">>, <<"electrical", "EEE">>, <<"ee", "EEE">> >>

\* IntentProcessor.day_mappings as built by __init__ when the clock reads n:
\* the values of 'today' and 'tomorrow' are computed there, once.
build_day_mappings(n) == <<
    <<"today", get_today(n)>>, <<"tomorrow", get_tomorrow(n)>>,
    <<"monday", "monday">>, <<"mon", "monday">>,
    <<"tuesday", "tuesday">>, <<"tue", "tuesday">>,
    <<"wednesday", "wednesday">>, <<"wed", "wednesday">>,
    <<"thursday", "thursday">>, <<"thu", "thursday">>,
    <<"friday", "friday">>, <<"fri", "friday">>,
    <<"saturday", "saturday">>, <<"sat", "saturday">>,
    <<"sunday", "sunday">>, <<"sun", "sunday">> >>

\* the facilities list of extract_entities
facilities == <<"library", "canteen", "hostel", "sports", "gym",
                "medical", "hospital", "bus", "transport">>

\* a score that counts the patterns and leaves the keywords out
intent_score_patterns_only(d, s) ==
    2 * Cardinality({i \in 1..Len(d.patterns) : re_search(d.patterns[i], s)})

\* a score in which a pattern weighs as much as a keyword
intent_score_unweighted(d, s) ==
    Cardinality({i \in 1..Len(d.keywords) : Contains(s, d.keywords[i])})
    + Cardinality({i \in 1..Len(d.patterns) : re_search(d.patterns[i], s)})

\* the score of one intent: +1 per keyword in the text, +2 per matching pattern
intent_score(d, s) ==
    Cardinality({i \in 1..Len(d.keywords) : Contains(s, d.keywords[i])})
    + 2 * Cardinality({i \in 1..Len(d.patterns) : re_search(d.patterns[i], s)})

\* len(keywords) + len(patterns) * 2
max_possible(d) == Len(d.keywords) + Len(d.patterns) * 2

\* a confidence reported as a percentage
confidence_percent(best_score, maxp) == [num |-> best_score * 100, den |-> maxp]

\* min(best_score / max_possible, 1.0)
confidence_of(best_score, maxp) ==
    IF best_score > maxp THEN [num |-> 1, den |-> 1]
    ELSE [num |-> best_score, den |-> maxp]

\* the last key of maximal value
best_intent_last(scores) ==
    CHOOSE i \in 1..Len(scores) :
        /\ \A j \in 1..Len(scores) : scores[j] <= scores[i]
        /\ \A j \in (i + 1)..Len(scores) : scores[j] < scores[i]

\* max(intent_scores, key=intent_scores.get): the first key of maximal value
best_intent(scores) ==
    CHOOSE i \in 1..Len(scores) :
        /\ \A j \in 1..Len(scores) : scores[j] <= scores[i]
        /\ \A j \in 1..(i - 1) : scores[j] < scores[i]

\* identify_intent that wants a winning score above 1 before it names an intent
identify_intent_above_one(t) ==
    LET s == preprocess_text(t)
        scores == [i \in 1..Len(intents) |-> intent_score(intents[i], s)]
        b == best_intent(scores)
    IN  IF s # "" /\ scores[b] > 1
        THEN [intent |-> intents[b].name,
              confidence |-> confidence_of(scores[b], max_possible(intents[b])),
              best_score |-> scores[b]]
        ELSE [intent |-> "unknown", confidence |-> [num |-> 0, den |-> 1],
              best_score |-> 0]

\* IntentProcessor.identify_intent
identify_intent(t) ==
    LET s == preprocess_text(t)
        scores == [i \in 1..Len(intents) |-> intent_score(intents[i], s)]
        b == best_intent(scores)
    IN  IF s = "" THEN [intent |-> "unknown", confidence |-> [num |-> 0, den |-> 1],
                        best_score |-> 0]
        ELSE IF scores[b] > 0
             THEN [intent |-> intents[b].name,
                   confidence |-> confidence_of(scores[b], max_possible(intents[b])),
                   best_score |-> scores[b]]
             ELSE [intent |-> "unknown", confidence |-> [num |-> 0, den |-> 1],
                   best_score |-> 0]

\* the same loop storing the alias that matched instead of its value
first_match_key(mapping, s) ==
    LET hits == {i \in 1..Len(mapping) : Contains(s, mapping[i][1])}
    IN  IF hits = {} THEN None
        ELSE mapping[CHOOSE i \in hits : \A j \in hits : i <= j][1]

\* the same loop without the break: the last key found wins
last_match(mapping, s) ==
    LET hits == {i \in 1..Len(mapping) : Contains(s, mapping[i][1])}
    IN  IF hits = {} THEN None
        ELSE mapping[CHOOSE i \in hits : \A j \in hits : j <= i][2]

\* the loop "for key, value in mapping.items(): if key in text: ...; break"
first_match(mapping, s) ==
    LET hits == {i \in 1..Len(mapping) : Contains(s, mapping[i][1])}
    IN  IF hits = {} THEN None
        ELSE mapping[CHOOSE i \in hits : \A j \in hits : i <= j][2]

\* the loop over the facilities list
first_facility(s) ==
    LET hits == {i \in 1..Len(facilities) : Contains(s, facilities[i])}
    IN  IF hits = {} THEN None
        ELSE facilities[CHOOSE i \in hits : \A j \in hits : i <= j]

\* IntentProcessor.extract_entities, with the day table of this instance
extract_entities(t, mappings) ==
    LET s == preprocess_text(t)
    IN  [department |-> first_match(department_mappings, s),
         day |-> first_match(mappings, s),
         subject |-> None,
         facility |-> first_facility(s)]

\* IntentProcessor.process_query
nlp_process_query(t, mappings) ==
    LET r == identify_intent(t)
    IN  [original_text |-> t,
         processed_text |-> preprocess_text(t),
         intent |-> r.intent,
         confidence |-> r.confidence,
         best_score |-> r.best_score,
         entities |-> extract_entities(t, mappings)]

\* ------------------------------------------------------- data_handler.py
\* A JSON object is the sequence of its <<key, value>> pairs in file order, a
\* JSON array the sequence of its elements; {} and [] are both << >>.
Keys(d) == {d[i][1] : i \in 1..Len(d)}

Has(d, k) == k \in Keys(d)

\* d[k], for a key that d has
Get(d, k) == d[CHOOSE i \in 1..Len(d) : d[i][1] = k][2]

\* a call returns v, or raises the exception e
Return(v) == [raised |-> FALSE, value |-> v]

Raise(e) == [raised |-> TRUE, value |-> e]

\* every record of the array has every one of the fields that are subscripted
Complete(records, fields) == \A i \in 1..Len(records) : fields \subseteq Keys(records[i])

\* ''.join(parts)
RECURSIVE Join(_)
Join(parts) == IF parts = <<>> THEN "" ELSE Head(parts) \o Join(Tail(parts))

\* sep.join(parts)
RECURSIVE JoinWith(_, _)
JoinWith(parts, sep) ==
    IF parts = <<>> THEN ""
    ELSE IF Len(parts) = 1 THEN Head(parts)
    ELSE Head(parts) \o sep \o JoinWith(Tail(parts), sep)

\* lst[:n]
Take(lst, n) == SubSeq(lst, 1, IF Len(lst) < n THEN Len(lst) ELSE n)

\* "not x" for an argument that is None or a string
Falsy(x) == x = None \/ x = ""

\* the files of the data directory, in the order __init__ loads them
FileNames == <<"timetable", "exams", "departments", "campus_info", "faqs">>

\* DataHandler._load_json: FileNotFoundError and JSONDecodeError both give {}
load_json(f) == IF f.status = "ok" THEN f.data ELSE <<>>

\* DataHandler.__init__
load_all(disk) == [n \in DOMAIN disk |-> load_json(disk[n])]

\* (datetime.now() + timedelta(days=k)).strftime('%Y-%m-%d'): the clock reads
\* 0 on Monday 2026-11-02
TwoDigits(k) == Char("0123456789", (k \div 10) + 1) \o Char("0123456789", (k % 10) + 1)

date_string(n) == "2026-11-" \o TwoDigits(n + 2)

SlotFields == {"time", "subject", "room", "faculty"}

\* the per-class lines of one department's schedule
slot_block(c) ==
    Get(c, "time") \o "\n   " \o Get(c, "subject") \o "\n   Room: " \o Get(c, "room")
    \o "\n   Faculty: " \o Get(c, "faculty") \o "\n\n"

slot_line(c) ==
    "  " \o Get(c, "time") \o " - " \o Get(c, "subject") \o " (" \o Get(c, "room") \o ")\n"

\* one "dept Department:" block of the all-departments timetable
department_block(entry) ==
    entry[1] \o " Department:\n"
    \o Join([i \in 1..Len(entry[2]) |-> slot_line(entry[2][i])]) \o "\n"

\* get_timetable past its "if not self.timetable" guard
timetable_lookup(st, day, department, n) ==
    LET d == lower(IF Falsy(day) THEN weekday(n) ELSE day)
    IN  IF ~Has(st.timetable, d)
        THEN IF d = "sunday" THEN Return("Sunday is a holiday. No classes scheduled.")
             ELSE Return("No timetable available for " \o capitalize(d) \o ".")
        ELSE
        LET day_schedule == Get(st.timetable, d)
        IN  IF ~Falsy(department)
            THEN IF Has(day_schedule, upper(department))
                 THEN LET schedule == Get(day_schedule, upper(department))
                      IN  IF ~Complete(schedule, SlotFields) THEN Raise("KeyError")
                          ELSE Return(upper(department) \o " Schedule for "
                                      \o capitalize(d) \o ":\n\n"
                                      \o Join([i \in 1..Len(schedule) |->
                                                  slot_block(schedule[i])]))
                 ELSE Return("No schedule found for " \o upper(department)
                             \o " department on " \o capitalize(d) \o ".")
            ELSE IF \E i \in 1..Len(day_schedule) :
                        ~Complete(day_schedule[i][2], {"time", "subject", "room"})
                 THEN Raise("KeyError")
                 ELSE Return("Timetable for " \o capitalize(d) \o ":\n\n"
                             \o Join([i \in 1..Len(day_schedule) |->
                                         department_block(day_schedule[i])]))

\* get_timetable without the guard
get_timetable_unguarded(st, day, department, n) == timetable_lookup(st, day, department, n)

\* get_timetable answering for all departments whatever department is given
get_timetable_all_departments(st, day, department, n) ==
    IF st.timetable = <<>> THEN Return("Sorry, timetable data is not available.")
    ELSE timetable_lookup(st, day, None, n)

\* DataHandler.get_timetable, called when the clock reads n
get_timetable(st, day, department, n) ==
    IF st.timetable = <<>> THEN Return("Sorry, timetable data is not available.")
    ELSE timetable_lookup(st, day, department, n)

ExamFields == {"subject", "date", "day", "time", "room", "type"}

exam_block(e) ==
    Get(e, "subject") \o "\n   Date: " \o Get(e, "date") \o " (" \o Get(e, "day")
    \o ")\n   Time: " \o Get(e, "time") \o "\n   Room: " \o Get(e, "room")
    \o "\n   Type: " \o Get(e, "type") \o "\n\n"

exam_line(e) ==
    "  * " \o Get(e, "subject") \o " - " \o Get(e, "date") \o " (" \o Get(e, "time") \o ")\n"

\* one "dept Department:" block of the summary: the first 3 exams
exam_summary_block(entry) ==
    entry[1] \o " Department:\n"
    \o Join([i \in 1..Len(Take(entry[2], 3)) |-> exam_line(entry[2][i])]) \o "\n"

rule_line(r) == "  * " \o r \o "\n"

\* DataHandler.get_exam_schedule
get_exam_schedule(st, department) ==
    IF st.exams = <<>> \/ ~Has(st.exams, "upcoming_exams")
    THEN Return("Sorry, exam schedule is not available.")
    ELSE
    LET upcoming == Get(st.exams, "upcoming_exams")
    IN  IF ~Falsy(department)
        THEN IF Has(upcoming, upper(department))
             THEN LET exams == Get(upcoming, upper(department))
                  IN  IF ~Complete(exams, ExamFields) THEN Raise("KeyError")
                      ELSE Return("Upcoming Exams for " \o upper(department) \o ":\n\n"
                                  \o Join([i \in 1..Len(exams) |-> exam_block(exams[i])]))
             ELSE Return("No exam schedule found for " \o upper(department)
                         \o " department.")
        ELSE IF \E i \in 1..Len(upcoming) :
                    ~Complete(Take(upcoming[i][2], 3), {"subject", "date", "time"})
             THEN Raise("KeyError")
             ELSE Return("Upcoming Examination Schedule:\n\n"
                         \o Join([i \in 1..Len(upcoming) |-> exam_summary_block(upcoming[i])])
                         \o (IF Has(st.exams, "exam_rules")
                             THEN LET rules == Take(Get(st.exams, "exam_rules"), 3)
                                  IN  "Important Rules:\n"
                                      \o Join([i \in 1..Len(rules) |-> rule_line(rules[i])])
                             ELSE ""))


\* exam['date'] is read for every exam of a selected department, the other
\* fields for the exams of tomorrow
tomorrow_exam_block(dept, e) ==
    dept \o " - " \o Get(e, "subject") \o "\n   Time: " \o Get(e, "time")
    \o "\n   Room: " \o Get(e, "room") \o "\n\n"

tomorrow_department_block(entry, tomorrow) ==
    Join([i \in 1..Len(entry[2]) |->
             IF Get(entry[2][i], "date") = tomorrow
             THEN tomorrow_exam_block(entry[1], entry[2][i]) ELSE ""])

\* DataHandler.get_tomorrow_exams, called when the clock reads n
get_tomorrow_exams(st, department, n) ==
    IF st.exams = <<>> \/ ~Has(st.exams, "upcoming_exams")
    THEN Return("Sorry, exam schedule is not available.")
    ELSE
    LET tomorrow == date_string(n + 1)
        upcoming == Get(st.exams, "upcoming_exams")
        selected == {i \in 1..Len(upcoming) :
                        Falsy(department) \/ upper(upcoming[i][1]) = upper(department)}
        body == Join([i \in 1..Len(upcoming) |->
                         IF i \in selected
                         THEN tomorrow_department_block(upcoming[i], tomorrow) ELSE ""])
    IN  IF \E i \in selected : \E k \in 1..Len(upcoming[i][2]) :
               \/ ~Has(upcoming[i][2][k], "date")
               \/ /\ Get(upcoming[i][2][k], "date") = tomorrow
                  /\ ~({"subject", "time", "room"} \subseteq Keys(upcoming[i][2][k]))
        THEN Raise("KeyError")
        ELSE IF body = "" THEN Return("No exams scheduled for tomorrow.")
        ELSE Return("Tomorrow's Exams:\n\n" \o body)

DepartmentFields == {"full_name", "hod", "hod_contact", "office", "phone", "established",
                     "total_faculty", "total_students", "labs", "placements"}

PlacementFields == {"average_package", "highest_package", "placement_rate"}

department_directory_block(entry) ==
    entry[1] \o " - " \o Get(entry[2], "full_name") \o "\n   HOD: " \o Get(entry[2], "hod")
    \o "\n   Office: " \o Get(entry[2], "office") \o "\n\n"

\* DataHandler.get_department_info
get_department_info(st, department) ==
    IF st.departments = <<>> \/ ~Has(st.departments, "departments")
    THEN Return("Sorry, department information is not available.")
    ELSE
    LET depts == Get(st.departments, "departments")
    IN  IF ~Falsy(department)
        THEN IF Has(depts, upper(department))
             THEN LET info == Get(depts, upper(department))
                  IN  IF ~(DepartmentFields \subseteq Keys(info)) THEN Raise("KeyError")
                      ELSE IF ~(PlacementFields \subseteq Keys(Get(info, "placements")))
                      THEN Raise("KeyError")
                      ELSE Return(
                          Get(info, "full_name") \o " (" \o upper(department) \o ")\n\n"
                          \o "HOD: " \o Get(info, "hod") \o "\n"
                          \o "Email: " \o Get(info, "hod_contact") \o "\n"
                          \o "Office: " \o Get(info, "office") \o "\n"
                          \o "Phone: " \o Get(info, "phone") \o "\n"
                          \o "Established: " \o Get(info, "established") \o "\n"
                          \o "Total Faculty: " \o Get(info, "total_faculty") \o "\n"
                          \o "Total Students: " \o Get(info, "total_students") \o "\n\n"
                          \o "Labs: " \o JoinWith(Get(info, "labs"), ", ") \o "\n\n"
                          \o "Placements:\n"
                          \o "   Average Package: "
                          \o Get(Get(info, "placements"), "average_package") \o "\n"
                          \o "   Highest Package: "
                          \o Get(Get(info, "placements"), "highest_package") \o "\n"
                          \o "   Placement Rate: "
                          \o Get(Get(info, "placements"), "placement_rate") \o "\n")
             ELSE Return("Department '" \o upper(department)
                         \o "' not found. Available: CSE, ECE, MECH, CIVIL, EEE")
        ELSE IF \E i \in 1..Len(depts) : ~({"full_name", "hod", "office"} \subseteq Keys(depts[i][2]))
             THEN Raise("KeyError")
             ELSE Return("Available Departments:\n\n"
                         \o Join([i \in 1..Len(depts) |-> department_directory_block(depts[i])]))

\* str.replace('_', ' ')
RECURSIVE replace_underscores(_)
replace_underscores(s) ==
    IF s = "" THEN ""
    ELSE (IF Head(s) = "_" THEN " " ELSE Head(s)) \o replace_underscores(Tail(s))

IsLetter(c) == c \in LetterChars

\* str.title(): a letter is upper-cased after a non-letter and lower-cased after a letter
RECURSIVE title_from(_, _)
title_from(s, inWord) ==
    IF s = "" THEN ""
    ELSE (IF inWord THEN LowerChar(Head(s)) ELSE UpperChar(Head(s)))
         \o title_from(Tail(s), IsLetter(Head(s)))

title(s) == title_from(s, FALSE)

\* the facility overview of get_facility_info
FacilityDirectory ==
    "Campus Facilities:\n\n"
    \o "Library - Central Library\n"
    \o "Canteen - Multiple food options\n"
    \o "Hostel - Boys and Girls hostels\n"
    \o "Sports - Indoor and outdoor facilities\n"
    \o "Medical - 24/7 health center\n"
    \o "Transport - Bus service available\n\n"
    \o "Say 'Tell me about [facility name]' for details."

canteen_block(entry) ==
    title(replace_underscores(entry[1])) \o "\n   Location: " \o Get(entry[2], "location")
    \o "\n   Timings: " \o Get(entry[2], "timings") \o "\n\n"

hostel_block(h, label) ==
    label \o ":\n   Blocks: " \o JoinWith(Get(h, "blocks"), ", ")
    \o "\n   Warden: " \o Get(h, "warden") \o "\n   Contact: " \o Get(h, "contact") \o "\n\n"

meal_line(entry) == "   " \o capitalize(entry[1]) \o ": " \o entry[2] \o "\n"

\* the record block of one facility; rec is facilities[<store key>]
library_info(lib) ==
    IF ~({"name", "location", "timings", "total_books", "digital_resources", "contact",
          "services"} \subseteq Keys(lib))
    THEN Raise("KeyError")
    ELSE Return(Get(lib, "name") \o "\n\nLocation: " \o Get(lib, "location")
                \o "\nTimings: " \o Get(lib, "timings")
                \o "\nTotal Books: " \o Get(lib, "total_books")
                \o "\nDigital Resources: " \o Get(lib, "digital_resources")
                \o "\nContact: " \o Get(lib, "contact")
                \o "\nServices: " \o JoinWith(Get(lib, "services"), ", "))

canteen_info(canteens) ==
    IF \E i \in 1..Len(canteens) : ~({"location", "timings"} \subseteq Keys(canteens[i][2]))
    THEN Raise("KeyError")
    ELSE Return("Campus Canteens:\n\n"
                \o Join([i \in 1..Len(canteens) |-> canteen_block(canteens[i])]))

hostel_info(hostel) ==
    IF \/ ~({"boys_hostel", "girls_hostel", "mess_timing"} \subseteq Keys(hostel))
       \/ ~({"blocks", "warden", "contact"} \subseteq Keys(Get(hostel, "boys_hostel")))
       \/ ~({"blocks", "warden", "contact"} \subseteq Keys(Get(hostel, "girls_hostel")))
    THEN Raise("KeyError")
    ELSE Return("Hostel Information:\n\n"
                \o hostel_block(Get(hostel, "boys_hostel"), "Boys Hostel")
                \o hostel_block(Get(hostel, "girls_hostel"), "Girls Hostel")
                \o "Mess Timings:\n"
                \o Join([i \in 1..Len(Get(hostel, "mess_timing")) |->
                            meal_line(Get(hostel, "mess_timing")[i])]))

sports_info(sports) ==
    IF ~({"indoor", "outdoor", "sports_complex_timing", "gym_timing", "sports_officer",
          "contact"} \subseteq Keys(sports))
    THEN Raise("KeyError")
    ELSE Return("Sports Facilities:\n\n"
                \o "Indoor: " \o JoinWith(Get(sports, "indoor"), ", ") \o "\n"
                \o "Outdoor: " \o JoinWith(Get(sports, "outdoor"), ", ") \o "\n"
                \o "Sports Complex: " \o Get(sports, "sports_complex_timing") \o "\n"
                \o "Gym: " \o Get(sports, "gym_timing") \o "\n"
                \o "Sports Officer: " \o Get(sports, "sports_officer") \o "\n"
                \o "Contact: " \o Get(sports, "contact"))

medical_info(medical) ==
    IF ~({"health_center", "timings", "doctor", "contact", "ambulance", "services"}
         \subseteq Keys(medical))
    THEN Raise("KeyError")
    ELSE Return("Health Center\n\n"
                \o "Location: " \o Get(medical, "health_center") \o "\n"
                \o "Timings: " \o Get(medical, "timings") \o "\n"
                \o "Doctor: " \o Get(medical, "doctor") \o "\n"
                \o "Contact: " \o Get(medical, "contact") \o "\n"
                \o "Ambulance: " \o Get(medical, "ambulance") \o "\n"
                \o "Services: " \o JoinWith(Get(medical, "services"), ", "))

transport_info(transport) ==
    IF ~({"bus_routes", "total_buses", "timing", "transport_officer", "contact"}
         \subseteq Keys(transport))
    THEN Raise("KeyError")
    ELSE Return("Transport Facility\n\n"
                \o "Bus Routes: " \o Get(transport, "bus_routes") \o "\n"
                \o "Total Buses: " \o Get(transport, "total_buses") \o "\n"
                \o "Timing: " \o Get(transport, "timing") \o "\n"
                \o "Transport Officer: " \o Get(transport, "transport_officer") \o "\n"
                \o "Contact: " \o Get(transport, "contact"))

\* DataHandler.get_facility_info
get_facility_info(st, facility) ==
    IF st.campus_info = <<>> \/ ~Has(st.campus_info, "facilities")
    THEN Return("Sorry, facility information is not available.")
    ELSE
    LET fs == Get(st.campus_info, "facilities")
        f == IF Falsy(facility) THEN None ELSE lower(facility)
    IN  IF Falsy(facility) THEN Return(FacilityDirectory)
        ELSE IF f = "library" /\ Has(fs, "library") THEN library_info(Get(fs, "library"))
        ELSE IF f \in {"canteen", "food"} /\ Has(fs, "canteen")
             THEN canteen_info(Get(fs, "canteen"))
        ELSE IF f \in {"hostel", "accommodation"} /\ Has(fs, "hostel")
             THEN hostel_info(Get(fs, "hostel"))
        ELSE IF f \in {"sports", "gym"} /\ Has(fs, "sports") THEN sports_info(Get(fs, "sports"))
        ELSE IF f \in {"medical", "hospital", "health"} /\ Has(fs, "medical")
             THEN medical_info(Get(fs, "medical"))
        ELSE IF f \in {"bus", "transport"} /\ Has(fs, "transport")
             THEN transport_info(Get(fs, "transport"))
        ELSE Return("Information about '" \o f \o "' is not available.")

event_block(e) ==
    Get(e, "name") \o "\n   Date: " \o Get(e, "date") \o "\n   Venue: " \o Get(e, "venue")
    \o "\n   " \o Get(e, "description") \o "\n\n"

\* DataHandler.get_events
get_events(st) ==
    IF st.campus_info = <<>> \/ ~Has(st.campus_info, "events")
    THEN Return("Sorry, events information is not available.")
    ELSE
    LET events == IF Has(Get(st.campus_info, "events"), "upcoming")
                  THEN Get(Get(st.campus_info, "events"), "upcoming") ELSE <<>>
    IN  IF events = <<>> THEN Return("No upcoming events scheduled.")
        ELSE IF ~Complete(events, {"name", "date", "venue", "description"})
        THEN Raise("KeyError")
        ELSE Return("Upcoming Events:\n\n"
                    \o Join([i \in 1..Len(events) |-> event_block(events[i])]))

\* the score of one FAQ record: its keywords that occur in the lowered query
faq_score(faq, query_lower) ==
    Cardinality({k \in 1..Len(Get(faq, "keywords")) :
                    Contains(query_lower, Get(faq, "keywords")[k])})

\* DataHandler.get_faq_answer; None is returned as the value None
get_faq_answer(st, query) ==
    IF st.faqs = <<>> \/ ~Has(st.faqs, "faqs") THEN Return(None)
    ELSE
    LET faqs == Get(st.faqs, "faqs")
        query_lower == lower(query)
    IN  IF ~Complete(faqs, {"keywords"}) THEN Raise("KeyError")
        ELSE
        LET hits == {i \in 1..Len(faqs) : faq_score(faqs[i], query_lower) > 0}
        IN  IF hits = {} THEN Return(None)
            ELSE
            \* "if score > best_score": the first record of maximal score
            LET best == CHOOSE i \in hits :
                            /\ \A j \in hits : faq_score(faqs[j], query_lower)
                                                  <= faq_score(faqs[i], query_lower)
                            /\ \A j \in hits : j < i =>
                                   faq_score(faqs[j], query_lower)
                                       < faq_score(faqs[i], query_lower)
            IN  IF ~({"question", "answer"} \subseteq Keys(faqs[best])) THEN Raise("KeyError")
                ELSE Return(Get(faqs[best], "question") \o "\n\n" \o Get(faqs[best], "answer"))


\* -------------------------------------------------- response_generator.py
greetings == <<
    "Hello! I'm your Campus Voice Assistant. How can I help you today?",
    "Hi there! Welcome to Campus Assistant. What would you like to know?",
    "Good day! I'm here to help you with campus information. What do you need?" >>

farewells == <<
    "Goodbye! Have a great day!",
    "Thank you for using Campus Assistant. Bye!",
    "Take care! Feel free to ask me anytime." >>

unknown_responses == <<
    "I'm sorry, I didn't quite understand that. Could you please rephrase?",
    "I'm not sure what you're asking. Try asking about classes, exams, departments, or facilities.",
    "Could you please be more specific? I can help with timetables, exams, department info, and campus facilities." >>

\* the three cyclic lists by name
CyclicLists == [greetings |-> greetings, farewells |-> farewells,
                unknown_responses |-> unknown_responses]

\* the result of a handler: what is returned or raised, the counter after the
\* call, and the cyclic list that was served from (None when there was none)
Served(name, v, count) == [raised |-> FALSE, value |-> v, count |-> count, list |-> name]

\* a handler outside the cyclic lists that advances the counter
Plain_advancing(r, count) ==
    [raised |-> r.raised, value |-> r.value, count |-> count + 1, list |-> None]

Plain_(r, count) == [raised |-> r.raised, value |-> r.value, count |-> count, list |-> None]

\* _get_cyclic_response that leaves the counter where it was
get_cyclic_response_no_advance(name, count) ==
    Served(name, CyclicLists[name][(count % Len(CyclicLists[name])) + 1], count)

\* ResponseGenerator._get_cyclic_response, run without interruption
get_cyclic_response(name, count) ==
    Served(name, CyclicLists[name][(count % Len(CyclicLists[name])) + 1], count + 1)

\* ResponseGenerator._handle_greeting
handle_greeting(count) == get_cyclic_response("greetings", count)

\* _handle_exit always answering with the first farewell
handle_exit_first(count) == Served("farewells", farewells[1], count + 1)

\* ResponseGenerator._handle_exit
handle_exit(count) == get_cyclic_response("farewells", count)

\* _handle_timetable without the check for "tomorrow" in the query
handle_timetable_extracted_day(st, entities, original_text, n) ==
    get_timetable(st, entities.day, entities.department, n)

\* ResponseGenerator._handle_timetable
handle_timetable(st, entities, original_text, n) ==
    get_timetable(st,
                  IF Contains(lower(original_text), "tomorrow") THEN weekday(n + 1)
                  ELSE entities.day,
                  entities.department, n)

\* _handle_exam without the check for "tomorrow" in the query
handle_exam_full_schedule(st, entities, original_text, n) ==
    get_exam_schedule(st, entities.department)

\* ResponseGenerator._handle_exam
handle_exam(st, entities, original_text, n) ==
    IF Contains(lower(original_text), "tomorrow")
    THEN get_tomorrow_exams(st, entities.department, n)
    ELSE get_exam_schedule(st, entities.department)

\* _handle_department asking for the directory whatever was extracted
handle_department_directory(st, entities) == get_department_info(st, None)

\* ResponseGenerator._handle_department
handle_department(st, entities) == get_department_info(st, entities.department)

\* _handle_facility asking for the overview whatever was extracted
handle_facility_overview(st, entities) == get_facility_info(st, None)

\* ResponseGenerator._handle_facility
handle_facility(st, entities) == get_facility_info(st, entities.facility)

\* ResponseGenerator._handle_event
handle_event(st) == get_events(st)

FaqFallback ==
    "I couldn't find specific information about that. Please contact the respective office for more details."

\* ResponseGenerator._handle_faq
handle_faq(st, original_text) ==
    LET answer == get_faq_answer(st, original_text)
    IN  IF answer.raised \/ ~Falsy(answer.value) THEN answer ELSE Return(FaqFallback)

\* _handle_unknown without the FAQ search
handle_unknown_no_faq(st, original_text, count) ==
    get_cyclic_response("unknown_responses", count)

\* ResponseGenerator._handle_unknown
handle_unknown(st, original_text, count) ==
    LET faq_answer == get_faq_answer(st, original_text)
    IN  IF faq_answer.raised \/ ~Falsy(faq_answer.value) THEN Plain_(faq_answer, count)
        ELSE get_cyclic_response("unknown_responses", count)

\* ResponseGenerator.generate_response, run without interruption when the clock
\* reads n and the counter is count
generate_response(qr, count, st, n) ==
    CASE qr.intent = "greeting" -> handle_greeting(count)
      [] qr.intent = "exit" -> handle_exit(count)
      [] qr.intent = "timetable" ->
             Plain_(handle_timetable(st, qr.entities, qr.original_text, n), count)
      [] qr.intent = "exam" -> Plain_(handle_exam(st, qr.entities, qr.original_text, n), count)
      [] qr.intent = "department" -> Plain_(handle_department(st, qr.entities), count)
      [] qr.intent = "facility" -> Plain_(handle_facility(st, qr.entities), count)
      [] qr.intent = "event" -> Plain_(handle_event(st), count)
      [] qr.intent = "faq" -> Plain_(handle_faq(st, qr.original_text), count)
      [] OTHER -> handle_unknown(st, qr.original_text, count)

\* ---------------------------------------------------------------- main.py
Clarification == "I didn't catch that. Could you please repeat?"

\* the classifier's result of a call that returned before the classifier
NotClassified == [intent |-> None]

\* CampusVoiceAssistant.process_query: what is returned or raised, the counter
\* after the call, the cyclic list served from, and the classifier's result
process_query(query, mappings, count, st, n) ==
    IF Falsy(query)
    THEN [classified |-> FALSE, qr |-> NotClassified]
         @@ Plain_(Return(Clarification), count)
    ELSE [classified |-> TRUE, qr |-> nlp_process_query(query, mappings)]
         @@ generate_response(nlp_process_query(query, mappings), count, st, n)

\* ------------------------------------------------------------- the inputs
\* Words the input texts are made of: keywords of several intents, aliases
\* of the three entity categories, capitals, punctuation and a non-word.
Words == {"Hello", "bye", "today's", "tomorrow", "classes", "CSE", "exam",
          "gym", "Monday", "?"}

\* the texts of at most n words, separated by single spaces
RECURSIVE TextsOf(_)
TextsOf(n) ==
    IF n = 0 THEN {""}
    ELSE TextsOf(n - 1) \cup {IF t = "" THEN w ELSE t \o " " \o w :
                                 t \in TextsOf(n - 1), w \in Words}

Texts ==
    TextsOf(MaxWords)
    \cup {"   ", " Bye ", "a ? b", "Good  morning",
          "goodbye exit quit stop thank you thanks done"}
    \cup {department_mappings[i][1] : i \in 1..Len(department_mappings)}

\* the weekdays on which the assistant is constructed: Saturday, so that the
\* clock can run over Sunday into the next week
StartDays == {5}

\* --------------------------------------------------- the data directory
\* A sample of the five JSON files, and the ways one of them can be absent,
\* unparsable, empty or short of a section, a key or a record field.
Without(rec, k) == SelectSeq(rec, LAMBDA e : e[1] # k)

With(rec, k, v) == [i \in 1..Len(rec) |-> IF rec[i][1] = k THEN <<k, v>> ELSE rec[i]]

Slot(t, subj, room, fac) ==
    << <<"time", t>>, <<"subject", subj>>, <<"room", room>>, <<"faculty", fac>> >>

Exam(subj, date, day, room) ==
    << <<"subject", subj>>, <<"date", date>>, <<"day", day>>, <<"time", "10:00 AM">>,
       <<"room", room>>, <<"type", "Internal">> >>

SampleTimetable == <<
    <<"monday", << <<"CSE", <<Slot("9:00", "Data Structures", "CS101", "Dr. Rao"),
                              Slot("10:00", "Networks", "CS102", "Dr. Iyer")>> >>,
                   <<"ECE", <<Slot("9:00", "Signals", "EC201", "Dr. Nair")>> >> >> >>,
    <<"saturday", << <<"CSE", <<Slot("9:00", "Lab", "CS-Lab", "Dr. Rao")>> >> >> >> >>

SampleExams == <<
    <<"upcoming_exams",
      << <<"CSE", <<Exam("Data Structures", "2026-11-08", "Sunday", "CS101"),
                    Exam("Networks", "2026-11-09", "Monday", "CS102"),
                    Exam("Databases", "2026-11-10", "Tuesday", "CS103"),
                    Exam("Compilers", "2026-11-11", "Wednesday", "CS104")>> >>,
         <<"ECE", <<Exam("Signals", "2026-11-08", "Sunday", "EC201")>> >> >> >>,
    <<"exam_rules", <<"Carry your ID card", "No phones", "Arrive early", "No calculators">> >> >>

SampleDepartment(name, hod) == <<
    <<"full_name", name>>, <<"hod", hod>>, <<"hod_contact", "hod@campus.edu">>,
    <<"office", "Block A">>, <<"phone", "1234">>, <<"established", "1995">>,
    <<"total_faculty", "30">>, <<"total_students", "600">>,
    <<"labs", <<"Lab 1", "Lab 2">> >>,
    <<"placements", << <<"average_package", "6 LPA">>, <<"highest_package", "20 LPA">>,
                       <<"placement_rate", "90%">> >> >> >>

SampleDepartments == <<
    <<"departments", << <<"CSE", SampleDepartment("Computer Science", "Dr. Rao")>>,
                        <<"ECE", SampleDepartment("Electronics", "Dr. Nair")>> >> >> >>

SampleFacilities == <<
    <<"library", << <<"name", "Central Library">>, <<"location", "Block C">>,
                    <<"timings", "8 AM - 8 PM">>, <<"total_books", "50000">>,
                    <<"digital_resources", "IEEE">>, <<"contact", "5678">>,
                    <<"services", <<"Lending", "Reading room">> >> >> >>,
    <<"canteen", << <<"main_canteen", << <<"location", "Block D">>,
                                         <<"timings", "8 AM - 6 PM">> >> >> >> >>,
    <<"hostel", << <<"boys_hostel", << <<"blocks", <<"A", "B">> >>, <<"warden", "Mr. Das">>,
                                       <<"contact", "1111">> >> >>,
                   <<"girls_hostel", << <<"blocks", <<"C">> >>, <<"warden", "Ms. Roy">>,
                                        <<"contact", "2222">> >> >>,
                   <<"mess_timing", << <<"breakfast", "7 AM">>, <<"dinner", "8 PM">> >> >> >> >>,
    <<"sports", << <<"indoor", <<"Chess">> >>, <<"outdoor", <<"Cricket", "Football">> >>,
                   <<"sports_complex_timing", "6 AM - 8 PM">>, <<"gym_timing", "6 AM - 9 AM">>,
                   <<"sports_officer", "Mr. Khan">>, <<"contact", "3333">> >> >>,
    <<"medical", << <<"health_center", "Block E">>, <<"timings", "24/7">>,
                    <<"doctor", "Dr. Sen">>, <<"contact", "4444">>, <<"ambulance", "108">>,
                    <<"services", <<"First aid">> >> >> >>,
    <<"transport", << <<"bus_routes", "12">>, <<"total_buses", "20">>,
                      <<"timing", "7 AM - 7 PM">>, <<"transport_officer", "Mr. Roy">>,
                      <<"contact", "5555">> >> >> >>

SampleEvent == << <<"name", "Tech Fest">>, <<"date", "2026-12-01">>, <<"venue", "Auditorium">>,
                  <<"description", "Annual technical festival">> >>

SampleCampusInfo == <<
    <<"facilities", SampleFacilities>>,
    <<"events", << <<"upcoming", <<SampleEvent>> >> >> >> >>

Faq(keywords, question, answer) ==
    << <<"keywords", keywords>>, <<"question", question>>, <<"answer", answer>> >>

SampleFaqs == <<
    <<"faqs", <<Faq(<<"leave", "apply">>, "How to apply for leave?", "Submit the leave form."),
                Faq(<<"fee">>, "What is the fee structure?", "See the fee circular."),
                Faq(<<"Wifi", "password">>, "How to get wifi?", "Register your device.")>> >> >>

OnDisk(data) == [status |-> "ok", data |-> data]

Failed(status) == [status |-> status, data |-> <<>>]

SampleDisk == [timetable |-> OnDisk(SampleTimetable), exams |-> OnDisk(SampleExams),
               departments |-> OnDisk(SampleDepartments),
               campus_info |-> OnDisk(SampleCampusInfo), faqs |-> OnDisk(SampleFaqs)]

\* the first record of a file's first list lacks one field
TimetableShortOfField ==
    With(SampleTimetable, "monday",
         << <<"CSE", <<Without(Slot("9:00", "Data Structures", "CS101", "Dr. Rao"), "room")>> >> >>)

ExamsShortOfField ==
    With(SampleExams, "upcoming_exams",
         << <<"CSE", <<Without(Exam("Data Structures", "2026-11-08", "Sunday", "CS101"),
                               "room")>> >> >>)

DepartmentsShortOfField ==
    <<  <<"departments",
          << <<"CSE", Without(SampleDepartment("Computer Science", "Dr. Rao"), "hod")>> >> >> >>

CampusInfoShortOfField ==
    << <<"facilities", With(SampleFacilities, "library", << <<"name", "Central Library">> >>)>>,
       <<"events", << <<"upcoming", <<Without(SampleEvent, "venue")>> >> >> >> >>

FaqsShortOfField ==
    << <<"faqs", <<Without(Faq(<<"fee">>, "What is the fee structure?", "See the circular."),
                           "answer")>> >> >>

\* what one file can be instead of the sample
Variants(f) ==
    {Failed("missing"), Failed("corrupt"), OnDisk(<<>>)}
    \cup CASE f = "timetable" -> {OnDisk(Without(SampleTimetable, "monday")),
                                  OnDisk(TimetableShortOfField)}
           [] f = "exams" -> {OnDisk(Without(SampleExams, "upcoming_exams")),
                              OnDisk(Without(SampleExams, "exam_rules")),
                              OnDisk(ExamsShortOfField)}
           [] f = "departments" -> {OnDisk(<< <<"departments", <<>> >> >>),
                                    OnDisk(DepartmentsShortOfField)}
           [] f = "campus_info" -> {OnDisk(Without(SampleCampusInfo, "facilities")),
                                    OnDisk(Without(SampleCampusInfo, "events")),
                                    OnDisk(<< <<"facilities", Without(SampleFacilities, "library")>>,
                                              <<"events", <<>> >> >>),
                                    OnDisk(CampusInfoShortOfField)}
           [] f = "faqs" -> {OnDisk(<< <<"faqs", <<>> >> >>), OnDisk(FaqsShortOfField)}

\* the data directories: the sample, the sample with one file replaced, and
\* the empty directory
Disks ==
    {SampleDisk}
    \cup UNION {{[SampleDisk EXCEPT ![FileNames[i]] = v] : v \in Variants(FileNames[i])} :
                    i \in 1..Len(FileNames)}
    \cup {[n \in DOMAIN SampleDisk |-> Failed("missing")]}


\* -------------------------------------------- the classifier on its own
InitNLP ==
    /\ now \in StartDays
    /\ built = now
    /\ day_mappings = build_day_mappings(now)
    /\ text \in Texts
    /\ pc = "start"
    /\ nlp = NoResult
    /\ response_count = 0
    /\ outcome = NoResult
    /\ files = NoResult
    /\ store = NoResult
    /\ log = <<>>
    /\ thr = <<>>
    /\ InitGui

\* the wall clock passes midnight
Tick ==
    /\ now - built < MaxTicks
    /\ now' = now + 1
    /\ UNCHANGED <<built, day_mappings, text, pc, nlp, response_count, outcome,
                   files, store, log, thr>>
    /\ UNCHANGED gui_vars

PreprocessText ==
    /\ pc' = "preprocess_text"
    /\ nlp' = [kind |-> "text", processed_text |-> preprocess_text(text)]
    /\ UNCHANGED <<now, built, day_mappings, text, response_count, outcome,
                   files, store, log, thr>>
    /\ UNCHANGED gui_vars

IdentifyIntent ==
    /\ pc' = "identify_intent"
    /\ nlp' = [kind |-> "intent"] @@ identify_intent(text)
    /\ UNCHANGED <<now, built, day_mappings, text, response_count, outcome,
                   files, store, log, thr>>
    /\ UNCHANGED gui_vars

ExtractEntities ==
    /\ pc' = "extract_entities"
    /\ nlp' = [kind |-> "entities", at |-> now] @@ extract_entities(text, day_mappings)
    /\ UNCHANGED <<now, built, day_mappings, text, response_count, outcome,
                   files, store, log, thr>>
    /\ UNCHANGED gui_vars

NextNLP == Tick \/ PreprocessText \/ IdentifyIntent \/ ExtractEntities

SpecNLP == InitNLP /\ [][NextNLP]_vars

\* ------------------------------- the classifier on texts made of keywords
\* the keywords of intent i that no other intent lists
OwnKeywords(i) ==
    {intents[i].keywords[k] : k \in 1..Len(intents[i].keywords)}
    \ UNION {{intents[j].keywords[k] : k \in 1..Len(intents[j].keywords)} :
                 j \in (1..Len(intents)) \ {i}}

\* the texts of 1 to n of these keywords, separated by single spaces
RECURSIVE KeywordTextsOf(_, _)
KeywordTextsOf(i, n) ==
    IF n = 0 THEN {}
    ELSE OwnKeywords(i) \cup KeywordTextsOf(i, n - 1)
         \cup {t \o " " \o w : t \in KeywordTextsOf(i, n - 1), w \in OwnKeywords(i)}

KeywordTexts == [i \in 1..Len(intents) |-> KeywordTextsOf(i, MaxWords)]

InitKw ==
    /\ now \in StartDays
    /\ built = now
    /\ day_mappings = build_day_mappings(now)
    /\ text \in UNION {KeywordTexts[i] : i \in 1..Len(intents)}
    /\ pc = "start"
    /\ nlp = NoResult
    /\ response_count = 0
    /\ outcome = NoResult
    /\ files = NoResult
    /\ store = NoResult
    /\ log = <<>>
    /\ thr = <<>>
    /\ InitGui

\* one identify_intent call on the text
ClassifyOnce == pc = "start" /\ IdentifyIntent

NextKw == ClassifyOnce

SpecKw == InitKw /\ [][NextKw]_vars

\* ------------------------------------------ one assistant, query after query
\* the queries of a console session
Queries == {"Hello", "bye", "asdkjasd nonsense", "CSE schedule for Monday", "   "}

Init ==
    /\ now \in StartDays
    /\ built = now
    /\ day_mappings = build_day_mappings(now)
    /\ text = None
    /\ pc = "ready"
    /\ nlp = NoResult
    /\ response_count = 0
    /\ outcome = NoResult
    /\ files = SampleDisk
    /\ store = load_all(files)
    /\ log = <<>>
    /\ thr = <<>>
    /\ InitGui

\* one call of CampusVoiceAssistant.process_query
ProcessQuery(q) ==
    /\ Len(log) < MaxCalls
    /\ outcome' = [count_before |-> response_count, at |-> now]
                  @@ process_query(q, day_mappings, response_count, store, now)
    /\ text' = q
    /\ pc' = "process_query"
    /\ nlp' = outcome'.qr
    /\ response_count' = outcome'.count
    /\ log' = Append(log, [query |-> q, intent |-> outcome'.qr.intent,
                           list |-> outcome'.list, value |-> outcome'.value])
    /\ UNCHANGED <<now, built, day_mappings, files, store, thr>>
    /\ UNCHANGED gui_vars

Ask == \E q \in Queries : ProcessQuery(q)

Next == Ask

Spec == Init /\ [][Next]_vars

\* ------------------------- a short session with a query for every handler
MaxAsked == 3

\* one query per branch of generate_response, and two for the unknown branch:
\* one that the FAQ search answers and one that it does not
IntentQueries == {"Hello", "bye", "CSE schedule for Monday", "CSE exam dates",
                  "Who is the hod", "gym", "Upcoming events", "Fee structure",
                  "lost password", "asdkjasd nonsense"}

NextAll == \E q \in IntentQueries : Len(log) < MaxAsked /\ ProcessQuery(q)

SpecAll == Init /\ [][NextAll]_vars

\* ----------------------------- one query against each data directory and date
DataQueries == {
    None, "", "   ", "What are today's classes for CSE?", "CSE schedule for Monday",
    "Tomorrow's timetable for ECE", "ECE timetable", "class schedule",
    "What is the exam schedule?", "Tomorrow's exams",
    "ECE exams TOMORROW", "civil exam dates",
    "CSE exam dates", "Tell me about CSE department", "Department contacts", "Who is the hod",
    "Tell me about library", "Canteen location", "Hostel information", "gym",
    "Medical center", "bus", "wifi", "Upcoming events", "How to apply for leave?",
    "Fee structure", "leave fee", "Wifi attendance rules", "asdkjasd nonsense", "Hello", "thanks"}

InitData ==
    /\ now \in StartDays
    /\ built = now
    /\ day_mappings = build_day_mappings(now)
    /\ text \in DataQueries
    /\ pc = "ready"
    /\ nlp = NoResult
    /\ response_count = 0
    /\ outcome = NoResult
    /\ files \in Disks
    /\ store = load_all(files)
    /\ log = <<>>
    /\ thr = <<>>
    /\ InitGui

AskOnce == log = <<>> /\ ProcessQuery(text)

NextData == Tick \/ AskOnce

SpecData == InitData /\ [][NextData]_vars

\* --------------------------------- the GUI: one worker thread per submission
ConcQueries == {"Hello", "thanks", "asdkjasd nonsense", "bye", "Library timings"}

GuiGoodbye == "Goodbye! Have a great day!"

InitConc ==
    /\ now \in StartDays
    /\ built = now
    /\ day_mappings = build_day_mappings(now)
    /\ text = None
    /\ pc = "ready"
    /\ nlp = NoResult
    /\ response_count = 0
    /\ outcome = NoResult
    /\ files = SampleDisk
    /\ store = load_all(files)
    /\ log = <<>>
    /\ thr = <<>>
    /\ InitGui

\* CampusAssistantGUI._on_submit: a non-empty entry starts a thread on _process
OnSubmit(q) ==
    /\ Len(thr) < MaxThreads
    /\ strip(q) # ""
    /\ thr' = Append(thr, [query |-> strip(q), pc |-> "start", list |-> None, idx |-> 0,
                           tmp |-> 0, value |-> None])
    /\ text' = q
    /\ pc' = "on_submit"
    /\ UNCHANGED <<now, built, day_mappings, nlp, response_count, outcome, files, store, log>>
    /\ UNCHANGED gui_vars

\* _process up to the call of _get_cyclic_response, or to its end when the
\* query is answered without a cyclic list
Process(i) ==
    /\ thr[i].pc = "start"
    /\ LET q == thr[i].query
           qr == nlp_process_query(q, day_mappings)
           r == generate_response(qr, response_count, store, now)
       IN  thr' = [thr EXCEPT ![i] =
                IF \E w \in {"exit", "quit", "bye"} : Contains(lower(q), w)
                THEN [@ EXCEPT !.pc = "done", !.value = GuiGoodbye]
                ELSE IF r.list # None THEN [@ EXCEPT !.pc = "read_index", !.list = r.list]
                ELSE [@ EXCEPT !.pc = "done",
                               !.value = IF r.raised THEN "Error: " \o r.value ELSE r.value]]
    /\ pc' = "process"
    /\ UNCHANGED <<now, built, day_mappings, text, nlp, response_count, outcome, files,
                   store, log>>
    /\ UNCHANGED gui_vars

\* response = responses[self.response_count % len(responses)]
ReadIndex(i) ==
    /\ thr[i].pc = "read_index"
    /\ thr' = [thr EXCEPT ![i] =
                  [@ EXCEPT !.pc = "read_count", !.idx = response_count,
                            !.value = CyclicLists[thr[i].list][
                                          (response_count % Len(CyclicLists[thr[i].list])) + 1]]]
    /\ pc' = "read_index"
    /\ UNCHANGED <<now, built, day_mappings, text, nlp, response_count, outcome, files,
                   store, log>>
    /\ UNCHANGED gui_vars

\* self.response_count += 1: the load ...
ReadCount(i) ==
    /\ thr[i].pc = "read_count"
    /\ thr' = [thr EXCEPT ![i] = [@ EXCEPT !.pc = "write_count", !.tmp = response_count]]
    /\ pc' = "read_count"
    /\ UNCHANGED <<now, built, day_mappings, text, nlp, response_count, outcome, files,
                   store, log>>
    /\ UNCHANGED gui_vars

\* ... and the store
WriteCount(i) ==
    /\ thr[i].pc = "write_count"
    /\ response_count' = thr[i].tmp + 1
    /\ thr' = [thr EXCEPT ![i] = [@ EXCEPT !.pc = "done"]]
    /\ pc' = "write_count"
    /\ UNCHANGED <<now, built, day_mappings, text, nlp, outcome, files, store, log>>
    /\ UNCHANGED gui_vars

NextConc ==
    \/ \E q \in ConcQueries : OnSubmit(q)
    \/ \E i \in 1..Len(thr) : Process(i)
    \/ \E i \in 1..Len(thr) : ReadIndex(i)
    \/ \E i \in 1..Len(thr) : ReadCount(i)
    \/ \E i \in 1..Len(thr) : WriteCount(i)

SpecConc == InitConc /\ [][NextConc]_vars

\* speak putting the text at the head of the queue
speak_at_head(q, t) == IF Falsy(t) THEN q ELSE <<t>> \o q

\* ------------------------------------------------- gui_app.py: TTSManager
\* TTSManager.speak: queue.put of a text that is not empty
speak(q, t) == IF Falsy(t) THEN q ELSE Append(q, t)

\* response[:400] if len(response) > 400 else response
first_400(response) == IF Len(response) > 400 THEN SubSeq(response, 1, 400) ELSE response


\* ------------------------------------------- gui_app.py: the speech queue
MaxSpeak == 3

\* a call of TTSManager.speak from any thread; log keeps the calls in order
Speak(t) ==
    /\ Len(log) < MaxSpeak
    /\ queue' = speak(queue, t)
    /\ log' = Append(log, t)
    /\ pc' = "speak"
    /\ UNCHANGED <<now, built, day_mappings, text, nlp, response_count, outcome, files,
                   store, thr, is_listening, microphone_available, running, worker, spoken>>

\* TTSManager.stop, called by _on_close
Stop ==
    /\ running
    /\ running' = FALSE
    /\ pc' = "stop"
    /\ UNCHANGED <<now, built, day_mappings, text, nlp, response_count, outcome, files,
                   store, log, thr, is_listening, microphone_available, queue, worker, spoken>>

\* _worker: "while self.running"
WorkerLoop ==
    /\ worker.pc = "loop"
    /\ worker' = [pc |-> IF running THEN "get" ELSE "terminated", text |-> None]
    /\ UNCHANGED <<now, built, day_mappings, text, pc, nlp, response_count, outcome, files,
                   store, log, thr, is_listening, microphone_available, queue, running,
                   spoken>>

\* _worker: queue.get(timeout=0.5) returns the oldest text, or raises
\* queue.Empty after the timeout and the loop continues
WorkerGet ==
    /\ worker.pc = "get"
    /\ IF queue = <<>>
       THEN worker' = [pc |-> "loop", text |-> None] /\ queue' = queue
       ELSE worker' = [pc |-> "say", text |-> Head(queue)] /\ queue' = Tail(queue)
    /\ UNCHANGED <<now, built, day_mappings, text, pc, nlp, response_count, outcome, files,
                   store, log, thr, is_listening, microphone_available, running, spoken>>

\* _worker: "if text: self.tts.say(text); self.tts.runAndWait()", with a
\* speech engine that utters the text and returns
WorkerSay ==
    /\ worker.pc = "say"
    /\ spoken' = IF Falsy(worker.text) THEN spoken ELSE Append(spoken, worker.text)
    /\ worker' = [pc |-> "loop", text |-> None]
    /\ UNCHANGED <<now, built, day_mappings, text, pc, nlp, response_count, outcome, files,
                   store, log, thr, is_listening, microphone_available, queue, running>>

WorkerStep == WorkerLoop \/ WorkerGet \/ WorkerSay

\* the texts passed to speak by the threads running _process: a response,
\* the goodbye and an empty text
NextTTS ==
    \/ \E t \in {"", "Hello! How can I help you today?", GuiGoodbye} : Speak(t)
    \/ Stop
    \/ WorkerStep

\* the worker is a thread of its own, which the scheduler keeps running
SpecTTS == Init /\ [][NextTTS]_vars /\ WF_vars(WorkerStep)

\* ------------------------------------------- gui_app.py: the voice capture
\* what get_text_from_speech gives: a recognised text, None, or an exception
Heard == {[kind |-> "text", value |-> "Hello"], [kind |-> "text", value |-> "bye"],
          [kind |-> "none", value |-> None], [kind |-> "error", value |-> None]}

InitVoice ==
    /\ now \in StartDays
    /\ built = now
    /\ day_mappings = build_day_mappings(now)
    /\ text = None
    /\ pc = "ready"
    /\ nlp = NoResult
    /\ response_count = 0
    /\ outcome = NoResult
    /\ files = SampleDisk
    /\ store = load_all(files)
    /\ log = <<>>
    /\ thr = <<>>
    /\ is_listening = FALSE
    /\ microphone_available \in BOOLEAN
    /\ queue = <<>>
    /\ running = TRUE
    /\ worker = [pc |-> "loop", text |-> None]
    /\ spoken = <<>>

\* CampusAssistantGUI._on_voice_click, on the Tk thread: a click starts a
\* thread on _listen unless is_listening is set or there is no microphone
OnVoiceClick ==
    /\ Len(thr) < MaxThreads
    /\ pc' = "on_voice_click"
    /\ thr' = IF is_listening \/ ~microphone_available THEN thr
              ELSE Append(thr, [pc |-> "start", heard |-> None])
    /\ UNCHANGED <<now, built, day_mappings, text, nlp, response_count, outcome, files,
                   store, log, gui_vars>>

\* _listen, its first statement: self.is_listening = True
ListenStart(i) ==
    /\ thr[i].pc = "start"
    /\ is_listening' = TRUE
    /\ thr' = [thr EXCEPT ![i] = [@ EXCEPT !.pc = "capturing"]]
    /\ pc' = "listen"
    /\ UNCHANGED <<now, built, day_mappings, text, nlp, response_count, outcome, files,
                   store, log, microphone_available, queue, running, worker, spoken>>

\* _listen, its try block: the capture, and _process on a recognised text
\* with the voice output enabled
Capture(i, h) ==
    /\ thr[i].pc = "capturing"
    /\ thr' = [thr EXCEPT ![i] = [pc |-> "finally", heard |-> h]]
    /\ pc' = "capture"
    /\ outcome' =
           IF h.kind # "text" THEN [raised |-> FALSE, value |-> None, count |-> response_count]
           ELSE IF \E w \in {"exit", "quit", "bye"} : Contains(lower(h.value), w)
           THEN [raised |-> FALSE, value |-> GuiGoodbye, count |-> response_count]
           ELSE generate_response(nlp_process_query(h.value, day_mappings),
                                  response_count, store, now)
    /\ response_count' = outcome'.count
    /\ queue' = IF outcome'.raised THEN queue ELSE speak(queue, first_400(outcome'.value))
    /\ UNCHANGED <<now, built, day_mappings, text, nlp, files, store, log, is_listening,
                   microphone_available, running, worker, spoken>>

\* _listen, its finally block: self.is_listening = False
ListenFinally(i) ==
    /\ thr[i].pc = "finally"
    /\ is_listening' = FALSE
    /\ thr' = [thr EXCEPT ![i] = [@ EXCEPT !.pc = "done"]]
    /\ pc' = "listen_done"
    /\ UNCHANGED <<now, built, day_mappings, text, nlp, response_count, outcome, files,
                   store, log, microphone_available, queue, running, worker, spoken>>

NextVoice ==
    \/ OnVoiceClick
    \/ \E i \in 1..Len(thr) : ListenStart(i)
    \/ \E i \in 1..Len(thr) : \E h \in Heard : Capture(i, h)
    \/ \E i \in 1..Len(thr) : ListenFinally(i)

SpecVoice == InitVoice /\ [][NextVoice]_vars


\* ------------------------------------------------ the console run loop
\* the example queries of ResponseGenerator.get_help_message
HelpExamples == {
    "What are today's classes?", "CSE schedule for Monday", "Tomorrow's timetable for ECE",
    "What is the exam schedule?", "Tomorrow's exams", "CSE exam dates",
    "Tell me about CSE department", "Who is the HOD of ECE?", "Department contacts",
    "Library timings", "Canteen location", "Hostel information", "Sports facilities",
    "Medical center", "Upcoming events", "College fest details",
    "How to apply for leave?", "Attendance requirements", "Fee structure"}

\* CampusVoiceAssistant.is_exit_command
is_exit_command(query) ==
    /\ ~Falsy(query)
    /\ \E word \in {"exit", "quit", "bye", "goodbye", "stop", "end"} :
           Contains(lower(query), word)

\* what the assistant is given in one turn: a typed line, the end of the
\* input, or what the speech recognizer made of the microphone (None when it
\* understood nothing)
Typed(line) == [kind |-> "line", value |-> line]

RunInputs ==
    {Typed(q) : q \in HelpExamples}
    \cup {Typed("quit"), Typed("exit"), Typed(" Goodbye "), Typed("help"), Typed(""),
          Typed("asdkjasd nonsense")}
    \cup {[kind |-> "eof", value |-> None], [kind |-> "speech", value |-> None],
          [kind |-> "speech", value |-> "Hello"]}

\* CampusVoiceAssistant.listen
listen(in) ==
    CASE in.kind = "line" -> strip(in.value)
      [] in.kind = "eof" -> "quit"
      [] in.kind = "speech" -> in.value

\* the "except Exception" branch of run: the apology, and the loop goes on
on_exception_break ==
    [kind |-> "apology", spoken |-> "Sorry, something went wrong. Please try again.",
     next |-> "stopped"]

on_exception ==
    [kind |-> "apology", spoken |-> "Sorry, something went wrong. Please try again.",
     next |-> "listen"]

InitRun ==
    /\ now \in StartDays
    /\ built = now
    /\ day_mappings = build_day_mappings(now)
    /\ text = None
    /\ pc = "listen"
    /\ nlp = NoResult
    /\ response_count = 0
    /\ outcome = NoResult
    /\ files \in {SampleDisk, [SampleDisk EXCEPT !.timetable = OnDisk(TimetableShortOfField)]}
    /\ store = load_all(files)
    /\ log = <<>>
    /\ thr = <<>>
    /\ InitGui

\* one pass of the "while True" of run. speak prints the text and hands it
\* to the speech engine when voice output is on; the engine is taken to
\* return.
RunTurn(in) ==
    /\ pc = "listen"
    /\ Len(log) < MaxTurns
    /\ outcome' =
           LET query == listen(in)
               from == [input |-> in, query |-> query, raised |-> FALSE,
                        count |-> response_count]
           IN  IF query = None
               THEN [kind |-> "skipped", spoken |-> None, next |-> "listen"] @@ from
               ELSE IF is_exit_command(query)
               THEN [kind |-> "goodbye", spoken |-> "Goodbye! Have a great day!",
                     next |-> "stopped"] @@ from
               ELSE IF lower(query) \in {"help", "commands", "what can you do"}
               THEN [kind |-> "help", spoken |-> None, next |-> "listen"] @@ from
               ELSE LET r == process_query(query, day_mappings, response_count, store, now)
                    IN  IF r.raised
                        THEN on_exception @@ [raised |-> TRUE, count |-> r.count] @@ from
                        ELSE [kind |-> "answer", spoken |-> r.value, next |-> "listen",
                              count |-> r.count] @@ from
    /\ pc' = outcome'.next
    /\ text' = outcome'.query
    /\ response_count' = outcome'.count
    /\ log' = Append(log, [kind |-> outcome'.kind])
    /\ UNCHANGED <<now, built, day_mappings, nlp, files, store, thr>>
    /\ UNCHANGED gui_vars

\* the "except KeyboardInterrupt" branch of run
KeyboardInterrupt ==
    /\ pc = "listen"
    /\ pc' = "stopped"
    /\ outcome' = [kind |-> "interrupted", spoken |-> None, next |-> "stopped",
                   input |-> [kind |-> "interrupt", value |-> None], query |-> None,
                   raised |-> FALSE, count |-> response_count]
    /\ log' = Append(log, [kind |-> "interrupted"])
    /\ UNCHANGED <<now, built, day_mappings, text, nlp, response_count, files, store, thr>>
    /\ UNCHANGED gui_vars

NextRun == (\E in \in RunInputs : RunTurn(in)) \/ KeyboardInterrupt

SpecRun == InitRun /\ [][NextRun]_vars

\* --------------------------------------------------- claims on the session
\* the calls of the log that were served from a cyclic list
CyclicCalls == SelectSeq(log, LAMBDA e : e.list # None)

\* how many of the first p calls of the log were served from list l
UsesUpTo(l, p) == Cardinality({j \in 1..p : log[j].list = l})

\* C1: when the worker threads that ran concurrently all served the same
\* cyclic list, they used distinct consecutive indices and the counter ends
\* advanced by their number: no index served twice, none skipped.
C1_ConcurrentCallsUseConsecutiveIndices ==
    (/\ Len(thr) >= 2
     /\ \A i \in 1..Len(thr) : thr[i].pc = "done" /\ thr[i].list = thr[1].list
     /\ thr[1].list # None)
    => /\ response_count = Len(thr)
       /\ {thr[i].idx : i \in 1..Len(thr)} = 0..(Len(thr) - 1)

\* C2: the k-th call served from a cyclic list returns that list's element
\* (k-1) mod 3, however many calls served from the other lists are interleaved.
C2_IndependentPositionPerList ==
    \A p \in 1..Len(log) :
        log[p].list # None =>
            log[p].value = CyclicLists[log[p].list][((UsesUpTo(log[p].list, p) - 1) % 3) + 1]

\* C3: in a run of greeting calls with no other cyclic call in between, any
\* three consecutive calls return pairwise distinct phrases and call i+3
\* returns the phrase of call i.
C3_GreetingsCycleThroughThree ==
    \A i \in 1..Len(CyclicCalls) :
        /\ (/\ i + 2 <= Len(CyclicCalls)
            /\ \A k \in i..(i + 2) : CyclicCalls[k].list = "greetings")
           => /\ CyclicCalls[i].value # CyclicCalls[i + 1].value
              /\ CyclicCalls[i + 1].value # CyclicCalls[i + 2].value
              /\ CyclicCalls[i].value # CyclicCalls[i + 2].value
        /\ (/\ i + 3 <= Len(CyclicCalls)
            /\ \A k \in i..(i + 3) : CyclicCalls[k].list = "greetings")
           => CyclicCalls[i + 3].value = CyclicCalls[i].value

\* four greetings in a row after a farewell: the run starts at the second greeting
C3_Witness ==
    /\ Len(log) = 5
    /\ log[1].list = "farewells"
    /\ \A k \in 2..5 : log[k].list = "greetings"
    /\ log[5].value = log[2].value
    /\ log[2].value = greetings[2]

\* C4: two consecutive process_query("bye") are both classified exit and
\* return two different phrases of the farewell list, whatever came before.
C4_TwoByesTwoFarewells ==
    \A p \in 1..(Len(log) - 1) :
        (log[p].query = "bye" /\ log[p + 1].query = "bye")
        => /\ log[p].intent = "exit"
           /\ log[p + 1].intent = "exit"
           /\ \E a, b \in 1..Len(farewells) :
                  a # b /\ log[p].value = farewells[a] /\ log[p + 1].value = farewells[b]

\* two byes after other calls, the second one wrapping round the list
C4_Witness ==
    /\ Len(log) >= 4
    /\ log[Len(log) - 1].query = "bye"
    /\ log[Len(log)].query = "bye"
    /\ log[Len(log) - 1].value = farewells[3]
    /\ log[Len(log)].value = farewells[1]

\* ------------------------------------------------ claims on the data directory
\* an empty, null or whitespace-only query
IsBlank(t) == t = None \/ strip(t) = ""

\* C5: a blank query is answered with the clarification prompt before the
\* classifier is entered: nothing is classified, nothing raised, and the counter
\* is where it was.
C5_BlankQueryGetsClarification ==
    (pc = "process_query" /\ IsBlank(text))
    => /\ ~outcome.raised
       /\ outcome.value = Clarification
       /\ ~outcome.classified
       /\ response_count = outcome.count_before

\* the file whose data the handler of an intent reads
NeededFile(intent) ==
    CASE intent = "timetable" -> "timetable"
      [] intent = "exam" -> "exams"
      [] intent = "department" -> "departments"
      [] intent \in {"facility", "event"} -> "campus_info"
      [] intent \in {"faq", "unknown"} -> "faqs"
      [] OTHER -> None

\* the last call was a query whose handler reads a file that failed to load
NeededFileFailed ==
    /\ pc = "process_query"
    /\ outcome.classified
    /\ NeededFile(nlp.intent) # None
    /\ files[NeededFile(nlp.intent)].status \in {"missing", "corrupt"}

\* what the same call returns when that file is on disk and holds {}: the
\* store loaded, and has no entry for any key
MissingDataOutcome ==
    process_query(text, day_mappings, outcome.count_before,
                  load_all([files EXCEPT ![NeededFile(nlp.intent)] = OnDisk(<<>>)]), now)

NotAvailable ==
    [timetable |-> {"Sorry, timetable data is not available."},
     exam |-> {"Sorry, exam schedule is not available."},
     department |-> {"Sorry, department information is not available."},
     facility |-> {"Sorry, facility information is not available."},
     event |-> {"Sorry, events information is not available."},
     faq |-> {FaqFallback},
     unknown |-> {unknown_responses[i] : i \in 1..Len(unknown_responses)}]

\* C6 as stated: a query that needs a file that failed to load ends in a
\* failure, or in a response other than the one given for missing data.
C6_StoreFailureDistinguishable ==
    NeededFileFailed =>
        \/ outcome.raised
        \/ outcome.value # MissingDataOutcome.value

\* C6 amended: a data file that is missing or is not valid JSON is masked at
\* load as empty data: the query that needs it raises nothing and returns the
\* same response as when the file holds {} - the "Sorry, ... is not
\* available." sentence of its handler (the no-match fallback for FAQ and
\* unknown queries).
C6_StoreFailureMaskedAsEmpty ==
    NeededFileFailed =>
        /\ ~outcome.raised
        /\ outcome.value = MissingDataOutcome.value
        /\ outcome.value \in NotAvailable[nlp.intent]

C6_Witness ==
    /\ NeededFileFailed
    /\ nlp.intent = "timetable"
    /\ files.timetable.status = "corrupt"
    /\ files.exams.status = "ok"
    /\ outcome.value = "Sorry, timetable data is not available."

\* C7: generate_response never raises, whatever the intent, the entities and
\* the data that is empty or missing.
C7_GenerateResponseNeverRaises ==
    pc = "process_query" => ~outcome.raised

\* ------------------------------------------------- claims on the classifier
IntentNames == {intents[i].name : i \in 1..Len(intents)} \cup {"unknown"}

DepartmentCodes == {"CSE", "ECE", "MECH", "CIVIL", "EEE"}

WeekdayNames == {DayNames[i] : i \in 1..Len(DayNames)}

StoreFacilities == {"library", "canteen", "hostel", "sports", "medical", "transport"}

\* C8: a text with "today" (with "tomorrow" and not "today") is resolved to the
\* weekday of the clock at the moment of the extract_entities call (plus one).
C8_DayResolvedAtCallTime ==
    pc = "extract_entities" =>
        LET s == preprocess_text(text)
        IN  /\ Contains(s, "today") => nlp.day = weekday(nlp.at)
            /\ (Contains(s, "tomorrow") /\ ~Contains(s, "today"))
                   => nlp.day = weekday(nlp.at + 1)

\* C9 as stated: the three entity fields stay inside {null, CSE, ECE, MECH,
\* CIVIL, EEE}, {null, the weekdays} and {null, the six store facilities}.
C9_EntitiesInStoreEnumerations ==
    pc = "extract_entities" =>
        /\ nlp.department \in DepartmentCodes \cup {None}
        /\ nlp.day \in WeekdayNames \cup {None}
        /\ nlp.facility \in StoreFacilities \cup {None}

\* C9 amended: the facility field is null or one of the nine names of the
\* extractor's own list, which has gym, hospital and bus beside the six store
\* facilities; department and day are as stated.
C9_EntitiesInExtractorEnumerations ==
    pc = "extract_entities" =>
        /\ nlp.department \in DepartmentCodes \cup {None}
        /\ nlp.day \in WeekdayNames \cup {None}
        /\ nlp.facility \in StoreFacilities \cup {"gym", "hospital", "bus"} \cup {None}

C9_Witness ==
    /\ pc = "extract_entities"
    /\ nlp.facility = "gym"
    /\ nlp.department = "CSE"

\* C10: identify_intent returns one of the nine intents and a confidence in
\* [0, 1], and the winning score is at most #keywords + 2 * #patterns of the
\* winning intent.
C10_IntentAndConfidenceInRange ==
    pc = "identify_intent" =>
        /\ nlp.intent \in IntentNames
        /\ nlp.confidence.den > 0
        /\ 0 <= nlp.confidence.num
        /\ nlp.confidence.num <= nlp.confidence.den
        /\ \A i \in 1..Len(intents) :
               nlp.intent = intents[i].name =>
                   nlp.best_score <= Len(intents[i].keywords) + 2 * Len(intents[i].patterns)

C10_Witness ==
    /\ pc = "identify_intent"
    /\ nlp.intent = "timetable"
    /\ nlp.best_score = 3
    /\ nlp.confidence = [num |-> 3, den |-> 22]

\* some keyword of some intent is in s, or some pattern of some intent matches s
SomethingMatches(s) ==
    \E i \in 1..Len(intents) :
        \/ \E k \in 1..Len(intents[i].keywords) : Contains(s, intents[i].keywords[k])
        \/ \E k \in 1..Len(intents[i].patterns) : re_search(intents[i].patterns[k], s)

\* C11: identify_intent returns (unknown, 0.0) exactly when no keyword and no
\* pattern of any intent matches the normalized text; otherwise the intent is
\* not unknown and the confidence is strictly positive.
C11_UnknownExactlyWhenNothingMatches ==
    pc = "identify_intent" =>
        IF SomethingMatches(preprocess_text(text))
        THEN nlp.intent # "unknown" /\ nlp.confidence.num > 0 /\ nlp.confidence.den > 0
        ELSE nlp.intent = "unknown" /\ nlp.confidence.num = 0

\* a text that is not empty after normalization and matches nothing
C11_Witness ==
    /\ pc = "identify_intent"
    /\ text = "a ? b"
    /\ preprocess_text(text) # ""
    /\ nlp.intent = "unknown"
    /\ nlp.confidence.num = 0

\* C12: a text made up only of keywords that one intent lists and no other
\* intent lists is classified as that intent, with confidence > 0.
C12_OwnKeywordsGiveTheirIntent ==
    pc = "identify_intent" =>
        \A i \in 1..Len(intents) :
            text \in KeywordTexts[i] =>
                /\ nlp.intent = intents[i].name
                /\ nlp.confidence.num > 0
                /\ nlp.confidence.den > 0

\* "scholarship" is a keyword of faq alone and holds "hi", a keyword of
\* greeting: both intents score 1 and faq is returned
C12_Witness ==
    /\ pc = "identify_intent"
    /\ text = "scholarship"
    /\ text \in KeywordTexts[6]
    /\ Contains(text, "hi")
    /\ nlp.intent = "faq"
    /\ nlp.best_score = 1

\* C13: "What are today's classes for CSE?" is classified timetable with
\* department CSE and the weekday of the clock at the query, and is answered
\* with the CSE schedule of that weekday or with an unavailable / no-schedule
\* message.
C13_TodaysClassesForCSE ==
    (pc = "process_query" /\ text = "What are today's classes for CSE?") =>
        LET d == capitalize(weekday(outcome.at))
        IN  /\ nlp.intent = "timetable"
            /\ nlp.entities.department = "CSE"
            /\ nlp.entities.day = weekday(outcome.at)
            /\ ~outcome.raised
            /\ \/ StartsWith(outcome.value, "CSE Schedule for " \o d \o ":")
               \/ outcome.value \in
                      {"Sorry, timetable data is not available.",
                       "Sunday is a holiday. No classes scheduled.",
                       "No timetable available for " \o d \o ".",
                       "No schedule found for CSE department on " \o d \o "."}

\* the last call was a query classified as facility
FacilityQueryAnswered ==
    pc = "process_query" /\ outcome.classified /\ nlp.intent = "facility"

\* how the record block of each facility name of the extractor begins
BlockHeading ==
    [library |-> "Central Library\n\nLocation: ", canteen |-> "Campus Canteens:\n\n",
     hostel |-> "Hostel Information:\n\n", sports |-> "Sports Facilities:\n\n",
     gym |-> "Sports Facilities:\n\n", medical |-> "Health Center\n\n",
     hospital |-> "Health Center\n\n", bus |-> "Transport Facility\n\n",
     transport |-> "Transport Facility\n\n"]

\* the answer is the record block of facility f, or says f is not available
BlockOrNotAvailable(f) ==
    \/ StartsWith(outcome.value, BlockHeading[f])
    \/ outcome.value = "Information about '" \o f \o "' is not available."
    \/ outcome.value = "Sorry, facility information is not available."

ScoreOf(i, s) ==
    Cardinality({k \in 1..Len(intents[i].keywords) : Contains(s, intents[i].keywords[k])})
    + 2 * Cardinality({k \in 1..Len(intents[i].patterns) :
                           re_search(intents[i].patterns[k], s)})

\* #keywords + 2 * #patterns of intent i
MaxScoreOf(i) == Len(intents[i].keywords) + 2 * Len(intents[i].patterns)

\* the intents of maximal score on s
TopIntents(s) ==
    {i \in 1..Len(intents) : \A j \in 1..Len(intents) : ScoreOf(j, s) <= ScoreOf(i, s)}

\* C17: when two or more intents share the maximum positive score, the one
\* declared first in the intent table is returned, with the confidence computed
\* from its own keyword and pattern counts.
C17_TiesGoToTheFirstDeclared ==
    pc = "identify_intent" =>
        LET s == preprocess_text(text)
            top == TopIntents(s)
        IN  (Cardinality(top) >= 2 /\ \E i \in top : ScoreOf(i, s) > 0) =>
                \E i \in top :
                    /\ \A j \in top : i <= j
                    /\ nlp.intent = intents[i].name
                    /\ nlp.confidence = [num |-> ScoreOf(i, s), den |-> MaxScoreOf(i)]

\* "Hello bye": greeting and exit both score 3, greeting is declared first
C17_Witness ==
    /\ pc = "identify_intent"
    /\ text = "Hello bye"
    /\ TopIntents(preprocess_text(text)) = {7, 8}
    /\ nlp.intent = "greeting"
    /\ nlp.confidence = [num |-> 3, den |-> 14]

\* C18: the score of an intent is the number of its keywords in the
\* normalized text plus twice the number of its patterns matching it; an intent
\* of maximum score is returned, with confidence min(score / (#keywords +
\* 2 * #patterns), 1) of that intent: exactly 1 when every keyword and pattern
\* of the winner matches.
C18_ScoreAndConfidence ==
    pc = "identify_intent" =>
        LET s == preprocess_text(text)
        IN  IF \A i \in 1..Len(intents) : ScoreOf(i, s) = 0
            THEN nlp.intent = "unknown"
            ELSE \E i \in TopIntents(s) :
                     /\ nlp.intent = intents[i].name
                     /\ nlp.best_score = ScoreOf(i, s)
                     /\ nlp.confidence.num * MaxScoreOf(i)
                            = ScoreOf(i, s) * nlp.confidence.den
                     /\ nlp.confidence.num <= nlp.confidence.den
                     /\ ScoreOf(i, s) = MaxScoreOf(i)
                            => nlp.confidence.num = nlp.confidence.den

\* a text with every keyword and every pattern of exit: confidence 1
C18_Witness ==
    /\ pc = "identify_intent"
    /\ text = "goodbye exit quit stop thank you thanks done"
    /\ nlp.intent = "exit"
    /\ nlp.best_score = 14
    /\ nlp.confidence.num = nlp.confidence.den

\* the value of the first entry of an alias table whose alias is in s
FirstAliasValue(table, s) ==
    IF \A i \in 1..Len(table) : ~Contains(s, table[i][1]) THEN None
    ELSE LET i == CHOOSE i \in 1..Len(table) :
                      /\ Contains(s, table[i][1])
                      /\ \A j \in 1..(i - 1) : ~Contains(s, table[j][1])
         IN  table[i][2]

\* C19: each of department, day and facility is the value of the first alias
\* of its own table, in declared order, that is a substring of the normalized
\* text, and null when none is; one value per category, decided by that
\* category's table alone.
C19_FirstAliasPerCategory ==
    pc = "extract_entities" =>
        LET s == preprocess_text(text)
        IN  /\ nlp.department = FirstAliasValue(department_mappings, s)
            /\ nlp.day = FirstAliasValue(day_mappings, s)
            /\ nlp.facility
                   = FirstAliasValue([i \in 1..Len(facilities) |->
                                         <<facilities[i], facilities[i]>>], s)

\* "tomorrow today's": the day table lists today before tomorrow
C19_Witness ==
    /\ pc = "extract_entities"
    /\ text = "tomorrow today's"
    /\ nlp.day = day_mappings[1][2]
    /\ nlp.day # day_mappings[2][2]
    /\ nlp.department = None

\* C20: the text that is one alias of the department table, alone, gives the
\* code the table maps that alias to.
C20_AliasAloneGivesItsCode ==
    pc = "extract_entities" =>
        \A i \in 1..Len(department_mappings) :
            text = department_mappings[i][1]
                => nlp.department = department_mappings[i][2]

\* ------------------------------------------------- claims on the run loop
\* the exit words, given as the whole command
ExitCommands == {"exit", "quit", "bye", "goodbye", "stop", "end"}

\* C15: every example query of the help message is answered through
\* process_query and leaves the loop running; the loop stops only on an exit
\* word given as a command, on the end of the input or on a keyboard interrupt.
C15_HelpExamplesKeepTheLoopRunning ==
    /\ \A q \in HelpExamples :
           (Len(log) > 0 /\ outcome.input = Typed(q))
               => outcome.kind \in {"answer", "apology"} /\ pc = "listen"
    /\ pc = "stopped" =>
           \/ outcome.kind = "interrupted"
           \/ outcome.input.kind = "eof"
           \/ lower(outcome.query) \in ExitCommands

\* C16: when process_query raises in the run loop, the loop presents the
\* generic apology and stays operational, ready to read the next query, for
\* any number of failures in a row.
C16_ApologyAndLoopGoesOn ==
    /\ (Len(log) > 0 /\ outcome.raised) =>
           /\ outcome.kind = "apology"
           /\ outcome.spoken = "Sorry, something went wrong. Please try again."
           /\ pc = "listen"
    /\ \A i \in 1..Len(log) :
           log[i].kind = "apology" => (i < Len(log) \/ pc = "listen")

\* process_query has raised in every turn so far, more than once, and the
\* loop is still listening
C16_Witness ==
    /\ Len(log) >= 2
    /\ \A i \in 1..Len(log) : log[i].kind = "apology"
    /\ outcome.raised
    /\ outcome.query = "CSE schedule for Monday"
    /\ outcome.spoken = "Sorry, something went wrong. Please try again."
    /\ pc = "listen"

\* ------------------------------------------------------------ claims on
\* the text normaliser and the handlers

\* C21: preprocess_text returns a lower-case string made only of word
\* characters, single spaces and apostrophes, with no run of two or more
\* whitespace characters and no leading or trailing whitespace; an empty
\* input gives the empty string.
C21_PreprocessedTextIsNormalised ==
    pc = "preprocess_text" =>
        LET r == nlp.processed_text IN
        /\ \A i \in 1..Len(r) :
               Char(r, i) \in (WordChars \ CharsOf(UpperLetters)) \cup {" ", "'"}
        /\ \A i \in 1..(Len(r) - 1) : ~(IsSpace(Char(r, i)) /\ IsSpace(Char(r, i + 1)))
        /\ r # "" => ~IsSpace(Char(r, 1)) /\ ~IsSpace(Char(r, Len(r)))
        /\ text = "" => r = ""

\* the weekdays an answer names
DaysNamed(v) == {d \in WeekdayNames : Contains(v, capitalize(d))}

\* a timetable query has been answered from a loaded timetable
TimetableAnswered ==
    /\ Len(log) > 0
    /\ outcome.qr.intent = "timetable"
    /\ ~outcome.raised
    /\ store.timetable # <<>>

\* the day of the claim: tomorrow's weekday at the time of the call when the
\* raw text contains "tomorrow", else the extracted day, else the weekday of
\* the time of the call
DayAsked ==
    IF Contains(lower(text), "tomorrow") THEN weekday(outcome.at + 1)
    ELSE IF outcome.qr.entities.day # None THEN outcome.qr.entities.day
    ELSE weekday(outcome.at)

\* C22: the timetable handler answers for tomorrow's weekday, computed at the
\* time of the call, whenever the raw text contains "tomorrow" in any case,
\* overriding the extracted day; otherwise for the extracted day when there is
\* one; otherwise for the weekday of the time of the call.
C22_DayOfTheTimetableAnswer ==
    TimetableAnswered =>
        DaysNamed(outcome.value) = {DayAsked}

\* "tomorrow" asked on the day after construction: the extracted day is the
\* Sunday computed at construction, the answer is for Monday
C22_Witness ==
    /\ TimetableAnswered
    /\ text = "Tomorrow's timetable for ECE"
    /\ outcome.at = built + 1
    /\ outcome.qr.entities.day = weekday(built + 1)
    /\ DaysNamed(outcome.value) = {weekday(built + 2)}

\* the number of places of s where k occurs
Occurrences(s, k) ==
    Cardinality({i \in 1..(Len(s) - Len(k) + 1) : SubSeq(s, i, i + Len(k) - 1) = k})

\* the answer for a day that is not a key of the timetable
UnknownDayMessage(v, day) ==
    v = IF day = "sunday" THEN "Sunday is a holiday. No classes scheduled."
        ELSE "No timetable available for " \o capitalize(day) \o "."

\* v is the schedule of the one department dept on the day: its heading and
\* one block per class, and no block of a department
SingleDepartmentSchedule(v, day, dept) ==
    /\ StartsWith(v, dept \o " Schedule for " \o capitalize(day) \o ":\n\n")
    /\ Has(Get(store.timetable, day), dept)
    /\ LET schedule == Get(Get(store.timetable, day), dept)
       IN  /\ Occurrences(v, "\n   Faculty: ") = Len(schedule)
           /\ \A i \in 1..Len(schedule) : Contains(v, Get(schedule[i], "subject"))
    /\ Occurrences(v, " Department:\n") = 0

\* v is the timetable of the day with one block per department of the day
OneBlockPerDepartment(v, day) ==
    LET day_schedule == Get(store.timetable, day)
    IN  /\ StartsWith(v, "Timetable for " \o capitalize(day) \o ":\n\n")
        /\ Occurrences(v, " Department:\n") = Len(day_schedule)
        /\ \A i \in 1..Len(day_schedule) :
               Occurrences(v, day_schedule[i][1] \o " Department:\n") = 1

ExamAnswered ==
    /\ Len(log) > 0
    /\ outcome.qr.intent = "exam"
    /\ ~outcome.raised
    /\ store.exams # <<>>
    /\ Has(store.exams, "upcoming_exams")

\* the first place of s where k occurs
FirstIndex(s, k) ==
    CHOOSE i \in 1..Len(s) :
        /\ SubSeq(s, i, i + Len(k) - 1) = k
        /\ \A j \in 1..(i - 1) : SubSeq(s, j, j + Len(k) - 1) # k

\* the exams of the store, as <<department position, exam position>>
StoredExams ==
    LET upcoming == Get(store.exams, "upcoming_exams")
    IN  {<<i, k>> \in (1..Len(upcoming)) \X (1..4) : k <= Len(upcoming[i][2])}

ExamAt(x) == Get(store.exams, "upcoming_exams")[x[1]][2][x[2]]

DepartmentAt(x) == Get(store.exams, "upcoming_exams")[x[1]][1]

\* the exams and the rules an answer reports
ExamsReported(v) == {x \in StoredExams : Contains(v, Get(ExamAt(x), "subject"))}

StoredRules == IF Has(store.exams, "exam_rules") THEN Get(store.exams, "exam_rules") ELSE <<>>

RulesReported(v) == {j \in 1..Len(StoredRules) : Contains(v, StoredRules[j])}

DepartmentAnswered ==
    /\ Len(log) > 0
    /\ outcome.qr.intent = "department"
    /\ ~outcome.raised
    /\ store.departments # <<>>
    /\ Has(store.departments, "departments")

\* v is the directory: one entry per department of the store, with its code,
\* head of department and office
IsDirectory(v, depts) ==
    /\ StartsWith(v, "Available Departments:\n\n")
    /\ Occurrences(v, "\n   HOD: ") = Len(depts)
    /\ \A i \in 1..Len(depts) :
           Contains(v, depts[i][1] \o " - " \o Get(depts[i][2], "full_name")
                       \o "\n   HOD: " \o Get(depts[i][2], "hod")
                       \o "\n   Office: " \o Get(depts[i][2], "office") \o "\n")

\* v is the record of the department code
IsRecord(v, code, info) ==
    /\ StartsWith(v, Get(info, "full_name") \o " (" \o code \o ")\n\n")
    /\ \A f \in {"hod", "hod_contact", "office", "phone", "established",
                 "total_faculty", "total_students"} : Contains(v, Get(info, f))
    /\ \A f \in PlacementFields : Contains(v, Get(Get(info, "placements"), f))

FaqSearched ==
    /\ Len(log) > 0
    /\ outcome.qr.intent \in {"faq", "unknown"}
    /\ ~outcome.raised
    /\ store.faqs # <<>>
    /\ Has(store.faqs, "faqs")
    /\ Complete(Get(store.faqs, "faqs"), {"keywords", "question", "answer"})

StoredFaqs == Get(store.faqs, "faqs")

\* the number of keywords of a record that occur in the query, letter case
\* apart
KeywordsPresent(faq, query) ==
    Cardinality({k \in 1..Len(Get(faq, "keywords")) :
                    Contains(lower(query), lower(Get(faq, "keywords")[k]))})

\* the records of the maximal score, when that is positive
BestFaqs(query) ==
    {i \in 1..Len(StoredFaqs) :
        /\ KeywordsPresent(StoredFaqs[i], query) > 0
        /\ \A j \in 1..Len(StoredFaqs) :
               KeywordsPresent(StoredFaqs[j], query) <= KeywordsPresent(StoredFaqs[i], query)}

FaqAnswer(faq) == Get(faq, "question") \o "\n\n" \o Get(faq, "answer")

\* C26: the FAQ search scores each record by the number of its keywords that
\* occur in the query under a case-insensitive substring test, answers with
\* the earliest record of the maximal score when that score is positive, and
\* finds nothing when no record scores above 0.
C26_BestFaqCaseInsensitive ==
    FaqSearched =>
        IF BestFaqs(text) = {}
        THEN \A i \in 1..Len(StoredFaqs) : outcome.value # FaqAnswer(StoredFaqs[i])
        ELSE outcome.value =
                 FaqAnswer(StoredFaqs[CHOOSE i \in BestFaqs(text) :
                                          \A j \in BestFaqs(text) : i <= j])

\* an unknown-intent query has been answered
UnknownAnswered ==
    /\ Len(log) > 0
    /\ outcome.qr.intent = "unknown"
    /\ ~outcome.raised

\* the records the FAQ search of the code finds in the query: a keyword, as
\* stored, occurs in the lower-cased query
FaqHits(query) ==
    {i \in 1..Len(StoredFaqs) :
        \E k \in 1..Len(Get(StoredFaqs[i], "keywords")) :
            Contains(lower(query), Get(StoredFaqs[i], "keywords")[k])}

\* C27: for an unknown-intent query the FAQ search runs first on the raw
\* text: when it matches, the FAQ answer is returned and the round-robin
\* counter stays; only when it does not match is the next of the three
\* "didn't understand" phrases returned and the counter advanced by one.
C27_FaqBeforeUnknownPhrase ==
    UnknownAnswered =>
        IF FaqHits(text) # {}
        THEN /\ \E i \in FaqHits(text) : outcome.value = FaqAnswer(StoredFaqs[i])
             /\ response_count = outcome.count_before
             /\ outcome.list = None
        ELSE /\ outcome.value = unknown_responses[(outcome.count_before % 3) + 1]
             /\ Len(unknown_responses) = 3
             /\ response_count = outcome.count_before + 1

\* after two phrases have been served, an unknown query that the FAQ search
\* answers leaves the counter at 2
C27_Witness ==
    /\ UnknownAnswered
    /\ text = "lost password"
    /\ FaqHits(text) = {3}
    /\ outcome.value = "How to get wifi?\n\nRegister your device."
    /\ outcome.count_before = 2
    /\ response_count = 2

\* the branches of generate_response that serve from a cyclic list
ServedFromCyclicList(o) ==
    \/ o.qr.intent \in {"greeting", "exit"}
    \/ o.qr.intent = "unknown" /\ FaqHits(o.qr.original_text) = {}

\* C28: in sequential use a call changes the round-robin counter only on
\* the greeting path, the exit path and the unknown path without an FAQ
\* match, and then by exactly one; the calls for the other intents leave it
\* where it was, and no call changes the alias tables or the store data.
C28_OnlyCyclicPathsAdvance ==
    [][Len(log') = Len(log) + 1 =>
           /\ (outcome'.classified /\ ~outcome'.raised) =>
                  response_count' = response_count
                                    + (IF ServedFromCyclicList(outcome') THEN 1 ELSE 0)
           /\ response_count' \in {response_count, response_count + 1}
           /\ day_mappings' = day_mappings
           /\ store' = store
           /\ files' = files]_vars

\* calls for the six intents outside the cyclic lists, and a FAQ-answered
\* unknown query, after the counter has left 0
C28_Witness ==
    /\ Len(log) = 3
    /\ log[1].intent = "greeting"
    /\ log[2].intent \in {"timetable", "exam", "department", "facility", "event", "faq"}
    /\ log[3].intent = "unknown"
    /\ text = "lost password"
    /\ response_count = 1

\* ------------------------------------------------ claims on the GUI threads

\* the threads that are inside _listen
Listening == {i \in 1..Len(thr) : thr[i].pc \in {"capturing", "finally"}}

\* C29: at most one voice-capture thread is inside _listen at any time,
\* under every interleaving of microphone clicks and thread scheduling.
C29_AtMostOneCapture == Cardinality(Listening) <= 1

\* the texts of the speak() calls that were not empty, in call order
NonEmptyTexts(calls) == SelectSeq(calls, LAMBDA t : ~Falsy(t))

\* the text the worker has taken from the queue and not yet uttered
Held == IF worker.pc = "say" THEN <<worker.text>> ELSE <<>>

====
